---- MODULE Spec2Model ----
(***************************************************************************)
(* Verification model of the per-session browser execution engine:        *)
(*   - the session pool        (tools/browser_manager.py, BrowserManager)  *)
(*   - the pending-question table (services/expense_service.py, _ask_user) *)
(*   - the per-group timeout   (services/expense_service.py)               *)
(*   - the OS-thread bridge    (run_in_thread / _run_direct)               *)
(*   - the job orchestrator    (services/expense_service.py,               *)
(*                              _run_direct_async, _process_tour_group)    *)
(*   - the login of a session  (tools/browser_tools.py, login)             *)
(*   - the pool lock           (tools/browser_manager.py, _pool_lock)      *)
(*   - the job registry and the question table under their threads        *)
(*                             (services/expense_service.py, _update_job, *)
(*                              _ask_user; app/routes.py)                  *)
(*   - review and confirm      (services/expense_service.py,               *)
(*                              review_expense_invoice,                    *)
(*                              confirm_and_execute_expense)               *)
(*   - the grouping of records (services/expense_service.py,               *)
(*                              _group_records_by_tour)                    *)
(*   - the totals of the groups (services/expense_service.py,              *)
(*                              _process_tour_group; fill_expense_rows)    *)
(*   - the option selection    (tools/browser_tools.py, _js_select_option) *)
(*   - the company payment     (tools/browser_tools.py,                    *)
(*                              fill_company_expense)                      *)
(* Each part has its own specification over its own variables; the        *)
(* variables of the other parts stay at their initial values.             *)
(***************************************************************************)
EXTENDS Integers, Sequences, FiniteSets, TLC

(***************************************************************************)
(* Part 1: the session pool.                                               *)
(***************************************************************************)

\* Session keys and the OS threads / greenlets that call into the pool.
Keys == {"a", "b"}
Threads == {"t1", "t2"}

\* MAX_BROWSER_INSTANCES and BROWSER_IDLE_TIMEOUT are read from the
\* environment; the model runs with a small pool and a short timeout,
\* time being counted in ticks of the clock.
MAX_INSTANCES == 1
IDLE_TIMEOUT == 1

\* Bounds of the exploration: the clock stops at MaxClock, and at most
\* MaxGen BrowserManager objects of one key exist at a time.
MaxClock == 2
MaxGen == 2

\* "No key": the session of a thread that runs no job or is in no call.
NoKey == "-"

\* Bounds of Part 2: the number of _ask_user calls and of chat messages.
MaxAsks == 2
MaxMsgs == 2

\* Bound of Part 3: the largest number of line items in a group.
MaxItems == 3

\* Bound of Part 4: the number of progress events one job produces.
MaxEvents == 3

\* Bound of Part 5: the number of groups in a job's grouped record map.
MaxGroups == 2

\* Bound of Part 8: the number of requests the transport serves while a job
\* runs (the worker asks at most MaxAsks questions).
MaxRequests == 2

\* Bounds of Part 9: the number of invoices reviewed and of callbacks n8n
\* makes.
MaxReviews == 2
MaxCallbacks == 2

\* Bound of Part 10: the number of records of an invoice.
MaxRecords == 4

\* Bound of Part 11: the number of line items of an invoice whose totals are
\* followed.
MaxLines == 3

\* Bounds of Part 12: the number of options of a dropdown and of calls of the
\* option-selection routine on it.
MaxOptions == 3
MaxSelects == 2

\* Bound of Part 13: the number of groups whose company payment section is
\* filled.
MaxPayments == 2

\* Bound of Part 14: the number of jobs of one session whose worker threads
\* are followed.
MaxJobs == 4

\* A BrowserManager object is <<sid, g>>: _session_id = sid, and g tells it
\* from the other managers of that key that still exist (an object that is
\* referenced nowhere and runs no browser is garbage; its g is used again).
VARIABLES
    _instances,     \* BrowserManager._instances: key -> g of its manager, 0 = absent
    _last_access,   \* BrowserManager._last_access: dict in insertion order,
                    \*   a sequence of [sid, ts]
    _active_jobs,   \* BrowserManager._active_jobs: key -> count, 0 = absent
    browser,        \* managers whose _browser is started and not closed
    clock,          \* time.time()
    pc,             \* thread -> "idle" | "closing" | "page"
    to_close,       \* thread -> managers it still has to close, outside the lock
    arg,            \* thread -> session_id of the get_instance call it is in
    result,         \* thread -> g of the manager get_instance returns to it
    job             \* thread -> key it has acquired and not released, or NoKey

poolVars == <<_instances, _last_access, _active_jobs, browser,
              clock, pc, to_close, arg, result, job>>

\* The pending-question table and the chat handler (Part 2).
VARIABLES
    _input_requests, \* expense_service._input_requests: key -> [ask, response];
                     \*   ask = 0: no entry; ask names the _ask_user call whose
                     \*   Event the entry holds; response = 0: None
    ask_pc,          \* _ask_user call -> "idle" | "waiting" | "woken" | "done"
    ask_key,         \* _ask_user call -> its session_id
    ask_evt,         \* _ask_user call -> the flag of its Event
    ask_answered,    \* _ask_user call -> what evt.wait(timeout) returned
    ask_ret,         \* _ask_user call -> the message it returned, 0 = None
    h_pc,            \* handle_user_message: "idle" | "checked" (between lines 95 and 97)
    n_msgs,          \* number of user_message events received so far
    msg_key,         \* message -> session key of its connection
    msg_seen,        \* message -> the request has_pending_input found, 0 = none
    msg_submit,      \* message -> what submit_user_input returned for it
    msg_fate         \* message -> "" | "answer" (returned at line 98) | "passed_on"

askVars == <<_input_requests, ask_pc, ask_key, ask_evt, ask_answered, ask_ret,
             h_pc, n_msgs, msg_key, msg_seen, msg_submit, msg_fate>>

\* One group's WorkflowRun under its wall-clock allowance (Part 3).
VARIABLES
    grp_pc,        \* "idle" | "asking" | "steps" | "done"
    grp_items,     \* n_items = len(line_items)
    grp_missing,   \* the document names no supplier
    grp_step,      \* index in Steps of the next awaited page step
    grp_elapsed,   \* seconds since asyncio.wait_for started the group
    grp_waited,    \* seconds of them the worker thread spent blocked in _ask_user
    grp_supplier,  \* "" | "document" | "answered" | "blank"
    grp_status,    \* entry_result["status"]: "" | "success" | "failed"
    grp_error      \* entry_result["error"]: "" | "Timed out" | the failed step

groupVars == <<grp_pc, grp_items, grp_missing, grp_step, grp_elapsed, grp_waited,
               grp_supplier, grp_status, grp_error>>

\* The OS-thread bridge: run_in_thread and _run_direct (Part 4).
VARIABLES
    br_kind,         \* "" | "run_in_thread" | "_run_direct"
    w_pc,            \* worker thread: "unstarted" | "running" | "finally" | "dead"
    w_outcome,       \* how the coroutine ended: "" | "ok" | "Exception" | "BaseException"
    w_produced,      \* events the worker passed to thread_safe_emit, in order
    progress_queue,  \* FIFO of events not yet taken by the caller
    emitted,         \* events the caller passed to _emit, in order
    emit_by,         \* the thread of each call of the transport's emit function
    result_q,        \* FIFO of <<status, value>> entries
    w_puts,          \* number of result_q.put calls of the worker
    c_pc,            \* caller: "idle" | "poll" | "drain" | "sleep" | "final_drain"
                     \*         | "get" | "returned" | "raised"
    c_value          \* what the caller returned or raised

bridgeVars == <<br_kind, w_pc, w_outcome, w_produced, progress_queue, emitted,
                emit_by, result_q, w_puts, c_pc, c_value>>

\* One expense job: _run_direct_async, _run_direct_async_inner and the
\* WorkflowRuns (_process_tour_group) of its groups (Part 5).  The job holds
\* its session key through _active_jobs of Part 1.
VARIABLES
    job_pc,        \* "idle" | "login" | "next_group" | "in_group" | "ended"
    job_groups,    \* grouped_records: sequence of n_items, one per group
    job_status,    \* _jobs[job_id]["status"]
    job_i,         \* i of the for loop: the current group, 0 before the loop
    job_login,     \* what browser_tools.login did: "" | "success" | "failed" | "raise"
    job_return,    \* "" | "login_failed" | "summary" (structured results) | "raised"
    results,       \* the results list: sequence of [group, status, error]
    success_count,
    fail_count,
    run_pc,        \* group -> "unstarted" | "running" | "ended": its WorkflowRun
    run_step,      \* index in RunSteps of the step the running WorkflowRun
                   \*   awaits next, 0 when none is running
    run_last_step, \* index of the last step the WorkflowRun of the current
                   \*   group awaited, 0 = none
    run_last_out,  \* what that step did: "" | "success" | "failed"
                   \*   | "expired" | "raise" | "cancelled"
    run_elapsed,   \* seconds since wait_for started the current group
    other_holds    \* acquires of the same key by another job (market analysis)

jobVars == <<job_pc, job_groups, job_status, job_i, job_login, job_return,
             results, success_count, fail_count, run_pc, run_step,
             run_last_step, run_last_out, run_elapsed, other_holds>>

\* The pool variables a job does not touch.
poolRest == <<_instances, _last_access, browser, clock, pc, to_close, arg, result, job>>

\* browser_tools.login on one BrowserManager (Part 6).
VARIABLES
    _logged_in,          \* manager._logged_in (is_logged_in)
    logged_in_username,  \* manager.logged_in_username, "" = not set / None
    cookies,             \* the user whose site session the context's cookies carry, "" = none
    ctx_closed,          \* the browser context has been closed under the manager
    lg_pc,               \* login call: "idle" | "clear" | "attempt" | "exhausted" | "done"
    lg_user,             \* username supplied to the call
    lg_other,            \* the call found the session marked under a different username
    lg_attempt,          \* attempt of the for loop, 0 before it
    lg_waited,           \* seconds slept between the previous attempt and this one
    lg_result            \* "" | "success" | "failed" | "raised"

loginVars == <<_logged_in, logged_in_username, cookies, ctx_closed, lg_pc, lg_user,
               lg_other, lg_attempt, lg_waited, lg_result>>

\* The pool operations step by step around _pool_lock (Part 7).
VARIABLES
    _pool_lock,    \* the thread that holds _pool_lock, NoKey when it is free
    lk_op,         \* thread -> the pool operation it is in, "" = none
    lk_snap        \* thread -> the maps as it read them under the lock

lockVars == <<_pool_lock, lk_op, lk_snap>>

\* The job registry and the question table as the worker OS thread and the
\* transport's thread access them (Part 8).
VARIABLES
    _input_lock,   \* the thread that holds _input_lock, NoKey when it is free
    rg_pc,         \* thread -> "idle" | "locked" | "leaving" | "wait" | "woken"
                   \*   | "upd_append" | "upd_results" | "done"
    rg_op,         \* thread -> the locked block it is in, "" = none
    rg_job,        \* _jobs[job_id]: [status, steps, results], steps the statuses
                   \*   appended, results whether the result list is stored
    rg_requests,   \* _input_requests[session_id]: "" none | "open" | "answered"
    rg_event,      \* the Event of the open request is set
    rg_asks,       \* _ask_user calls the worker has started
    rg_served,     \* requests the transport has served
    rg_seen,       \* the job as api_job_status last returned it
    rg_access      \* set of [thread, table, locked]: the accesses made so far

regVars == <<_input_lock, rg_pc, rg_op, rg_job, rg_requests, rg_event, rg_asks,
             rg_served, rg_seen, rg_access>>

\* Review before submit: review_expense_invoice, confirm_and_execute_expense,
\* the run they start and the callback of n8n (Part 9).
VARIABLES
    _pending_reviews, \* session key -> the pending review, NoReview when none
    rv_n,             \* number of jobs created: _jobs holds the jobs 1..rv_n
    rv_status,        \* job -> _jobs[job]["status"], "" for a job not created
    rv_steps,         \* job -> the statuses of _jobs[job]["steps"]
    rv_session,       \* job -> the session key its invoice was reviewed for
    rv_grouped,       \* job -> the grouping computed at review time
    rv_exec,          \* job -> its automation: "" none | "login" | "groups"
                      \*   (the worker thread of _run_direct) | "n8n" | "ended"
    rv_arg,           \* job -> what the automation was started with: kind "n8n"
                      \*   (the records, posted to n8n), "grouped" (_run_direct
                      \*   with a grouping) or "records" (_run_direct with the
                      \*   record list)
    rv_sent,          \* job -> the records were posted to n8n
    rv_callbacks,     \* number of callbacks received
    rv_ret            \* what the last confirm call did: "" | "no_pending"
                      \*   | "started"

reviewVars == <<_pending_reviews, rv_n, rv_status, rv_steps, rv_session, rv_grouped,
                rv_exec, rv_arg, rv_sent, rv_callbacks, rv_ret>>

\* One call of _group_records_by_tour (Part 10).
VARIABLES
    gp_pc,        \* "idle" | "returned"
    gp_records,   \* the records passed: sequence of [tour_code, program_code]
    gp_type,      \* expense_type
    gp_grouped    \* the OrderedDict returned: sequence of [key, items], items
                  \*   the positions in gp_records of the records of the group

groupingVars == <<gp_pc, gp_records, gp_type, gp_grouped>>

\* The totals of the groups of one job (Part 11).
VARIABLES
    tl_pc,        \* "idle" | "running" | "done"
    tl_records,   \* the records: sequence of [tour_code, program_code, amount]
    tl_type,      \* expense_type
    tl_grouped,   \* _group_records_by_tour(records, expense_type)
    tl_price,     \* per processed group, what fill_expense_rows wrote into
                  \*   input[name="price[]"]: the characters, or "unset"
    tl_results    \* results: one entry per processed group

totalVars == <<tl_pc, tl_records, tl_type, tl_grouped, tl_price, tl_results>>


\* One dropdown of the form and the calls of _js_select_option on it
\* (Part 12).
VARIABLES
    dd_pc,        \* "idle" | "loaded"
    dd_options,   \* sel.options: sequence of [value, text], characters each
    dd_selected,  \* sel.selectedIndex, counted from 0
    dd_changes,   \* number of change events dispatched on the dropdown
    dd_log        \* per call: [value, result, selected, changes] after it

selectVars == <<dd_pc, dd_options, dd_selected, dd_changes, dd_log>>


\* The company payment section of the form (Part 13).
VARIABLES
    cp_pc,        \* "idle" | "company" | "method" | "supplier" | "rest" | "done"
    cp_n,         \* number of groups whose section has been filled
    cp_company,   \* company_name passed to fill_company_expense
    cp_supplier,  \* supplier_name passed to fill_company_expense
    cp_selected,  \* selectedIndex of the company dropdown, counted from 0
    cp_pay_name,  \* the value of the pay_name input
    cp_writes     \* who wrote pay_name, in order: "page" (the dropdown's
                  \*   onchange script) or "step" (fill_company_expense)

payVars == <<cp_pc, cp_n, cp_company, cp_supplier, cp_selected, cp_pay_name, cp_writes>>


\* The browser handles of one session over its jobs (Part 14).
VARIABLES
    bh_job,       \* number of worker threads started; the running worker's
                  \*   event loop is loop bh_job
    bh_pc,        \* "idle" | "running": a worker thread of the session runs
    bh_handles,   \* the loop under which _page, _context and _browser of the
                  \*   session's BrowserManager were created, 0: None
    bh_drives     \* the calls made on handles: set of [made, on], the loop
                  \*   the handle was created under and the loop of the call

handleVars == <<bh_job, bh_pc, bh_handles, bh_drives>>

\* The variables of Parts 1 to 7, and of the parts after them.
earlyVars == <<poolVars, askVars, groupVars, bridgeVars, jobVars, loginVars, lockVars>>
laterVars == <<regVars, reviewVars, groupingVars, totalVars, selectVars, payVars, handleVars>>

vars == <<earlyVars, laterVars>>

notPool == <<askVars, groupVars, bridgeVars, jobVars, loginVars, lockVars, laterVars>>
notAsk == <<poolVars, groupVars, bridgeVars, jobVars, loginVars, lockVars, laterVars>>
notGroup == <<poolVars, askVars, bridgeVars, jobVars, loginVars, lockVars, laterVars>>
notBridge == <<poolVars, askVars, groupVars, jobVars, loginVars, lockVars, laterVars>>
notJob == <<poolRest, askVars, groupVars, bridgeVars, loginVars, lockVars, laterVars>>
notLogin == <<poolVars, askVars, groupVars, bridgeVars, jobVars, lockVars, laterVars>>
notLock == <<askVars, groupVars, bridgeVars, jobVars, loginVars, laterVars>>
notReg == <<earlyVars, reviewVars, groupingVars, totalVars, selectVars, payVars, handleVars>>
notReview == <<earlyVars, regVars, groupingVars, totalVars, selectVars, payVars, handleVars>>
notGrouping == <<earlyVars, regVars, reviewVars, totalVars, selectVars, payVars, handleVars>>
notTotal == <<earlyVars, regVars, reviewVars, groupingVars, selectVars, payVars, handleVars>>
notSelect == <<earlyVars, regVars, reviewVars, groupingVars, totalVars, payVars, handleVars>>
notPay == <<earlyVars, regVars, reviewVars, groupingVars, totalVars, selectVars, handleVars>>
notHandle == <<earlyVars, regVars, reviewVars, groupingVars, totalVars, selectVars, payVars>>

\* ---- dict helpers for _last_access (insertion-ordered) -------------------
LaKeys(la) == {la[i].sid : i \in 1..Len(la)}

LaGet(la, k) == la[CHOOSE i \in 1..Len(la) : la[i].sid = k].ts

LaPop(la, k) == SelectSeq(la, LAMBDA e : e.sid # k)

LaSet(la, k, now) ==
    IF k \in LaKeys(la)
    THEN [i \in 1..Len(la) |-> IF la[i].sid = k THEN [sid |-> k, ts |-> now] ELSE la[i]]
    ELSE Append(la, [sid |-> k, ts |-> now])

\* min(cls._last_access, key=cls._last_access.get): the first key, in
\* iteration order, with the smallest timestamp.
MinKey(la) ==
    la[CHOOSE i \in 1..Len(la) :
          /\ \A j \in 1..Len(la) : la[j].ts >= la[i].ts
          /\ \A j \in 1..(i - 1) : la[j].ts > la[i].ts].sid

Pool(inst) == {k \in Keys : inst[k] # 0}

\* The managers that still exist: in the pool, about to be closed, held by a
\* caller, or running a browser.
Existing ==
    {<<k, _instances[k]>> : k \in Pool(_instances)}
    \cup UNION {{to_close[t][i] : i \in 1..Len(to_close[t])} : t \in Threads}
    \cup {<<arg[t], result[t]>> : t \in {u \in Threads : result[u] # 0}}
    \cup browser

\* cls(session_id): a new object, distinct from every existing one
\* (0 when MaxGen managers of the key exist already).
Fresh(sid) ==
    IF \E g \in 1..MaxGen : <<sid, g>> \notin Existing
    THEN CHOOSE g \in 1..MaxGen :
            <<sid, g>> \notin Existing /\ \A h \in 1..(g - 1) : <<sid, h>> \in Existing
    ELSE 0

\* ---- get_instance, the part under _pool_lock -----------------------------
\* Lines 74-83: every key idle for more than IDLE_TIMEOUT is popped.
EvictExpired(inst, la, now) ==
    LET expired == SelectSeq(la, LAMBDA e : now - e.ts > IDLE_TIMEOUT)
        gone == LaKeys(expired)
    IN [instances |-> [k \in Keys |-> IF k \in gone THEN 0 ELSE inst[k]],
        last_access |-> SelectSeq(la, LAMBDA e : e.sid \notin gone),
        to_close |-> [i \in 1..Len(expired) |-> <<expired[i].sid, inst[expired[i].sid]>>]]

\* Lines 86-92: at capacity, the key with the oldest timestamp is popped.
EvictLRU(st) ==
    IF Cardinality(Pool(st.instances)) >= MAX_INSTANCES
    THEN LET oldest_sid == MinKey(st.last_access)
         IN [instances |-> [st.instances EXCEPT ![oldest_sid] = 0],
             last_access |-> LaPop(st.last_access, oldest_sid),
             to_close |-> Append(st.to_close, <<oldest_sid, st.instances[oldest_sid]>>)]
    ELSE st

\* A plausible slip: the capacity check is left out.
GetInstanceLocked_NoCapacity(inst, la, now, sid, fresh) ==
    LET s1 == EvictExpired(inst, la, now)
        isNew == s1.instances[sid] = 0
    IN [instances |-> IF isNew THEN [s1.instances EXCEPT ![sid] = fresh] ELSE s1.instances,
        last_access |-> LaSet(s1.last_access, sid, now),
        to_close |-> s1.to_close,
        created |-> isNew]

\* Lines 71-96; fresh names the manager cls(session_id) would construct.
GetInstanceLocked(inst, la, now, sid, fresh) ==
    LET s1 == EvictExpired(inst, la, now)
        isNew == s1.instances[sid] = 0
        s2 == IF isNew THEN EvictLRU(s1) ELSE s1
    IN [instances |-> IF isNew THEN [s2.instances EXCEPT ![sid] = fresh] ELSE s2.instances,
        last_access |-> LaSet(s2.last_access, sid, now),
        to_close |-> s2.to_close,
        created |-> isNew]

\* get_instance(session_id) by thread t: the locked block is one step; the
\* closing of the evicted managers follows outside the lock (CloseNext), and
\* then the caller's "await manager.get_page()" (get_page).
get_instance(t, sid) ==
    /\ pc[t] = "idle"
    /\ LET r == GetInstanceLocked(_instances, _last_access, clock, sid, Fresh(sid))
       IN /\ r.instances[sid] # 0
          /\ _instances' = r.instances
          /\ _last_access' = r.last_access
          /\ to_close' = [to_close EXCEPT ![t] = r.to_close]
          /\ pc' = [pc EXCEPT ![t] = IF Len(r.to_close) > 0 THEN "closing" ELSE "page"]
          /\ arg' = [arg EXCEPT ![t] = sid]
          /\ result' = [result EXCEPT ![t] = r.instances[sid]]
    /\ UNCHANGED <<_active_jobs, browser, clock, job>>
    /\ UNCHANGED notPool

\* _close_sync(inst) / await inst.close(): lines 212-230 and 244-251.
CloseNext(t) ==
    /\ pc[t] = "closing"
    /\ browser' = browser \ {Head(to_close[t])}
    /\ to_close' = [to_close EXCEPT ![t] = Tail(@)]
    /\ pc' = [pc EXCEPT ![t] = IF Len(to_close[t]) > 1 THEN "closing"
                               ELSE IF result[t] # 0 THEN "page" ELSE "idle"]
    /\ UNCHANGED <<_instances, _last_access, _active_jobs, clock, arg, result, job>>
    /\ UNCHANGED notPool

\* manager.get_page() -> _ensure_browser(), lines 164-194: starts the browser
\* of the manager get_instance returned, unless it is already running.
get_page(t) ==
    /\ pc[t] = "page"
    /\ browser' = browser \cup {<<arg[t], result[t]>>}
    /\ pc' = [pc EXCEPT ![t] = "idle"]
    /\ arg' = [arg EXCEPT ![t] = NoKey]
    /\ result' = [result EXCEPT ![t] = 0]
    /\ UNCHANGED <<_instances, _last_access, _active_jobs, clock, to_close, job>>
    /\ UNCHANGED notPool

\* ---- acquire / release ----------------------------------------------------
\* Lines 106-107.
AcquireLocked(jobs, sid) == [jobs EXCEPT ![sid] = @ + 1]

\* A plausible slip: the count is dropped whatever its value.
ReleaseLocked_AlwaysPop(jobs, sid) == [jobs EXCEPT ![sid] = 0]

\* Lines 113-118.
ReleaseLocked(jobs, sid) ==
    IF jobs[sid] > 1 THEN [jobs EXCEPT ![sid] = @ - 1] ELSE [jobs EXCEPT ![sid] = 0]

\* A job (a worker thread running _run_direct_async or _run_market_analysis)
\* acquires its session key at its start ...
acquire(t, sid) ==
    /\ pc[t] = "idle"
    /\ job[t] = NoKey
    /\ _active_jobs' = AcquireLocked(_active_jobs, sid)
    /\ job' = [job EXCEPT ![t] = sid]
    /\ UNCHANGED <<_instances, _last_access, browser, clock, pc, to_close,
                   arg, result>>
    /\ UNCHANGED notPool

\* ... and releases it in its finally clause.
release(t) ==
    /\ pc[t] = "idle"
    /\ job[t] # NoKey
    /\ _active_jobs' = ReleaseLocked(_active_jobs, job[t])
    /\ job' = [job EXCEPT ![t] = NoKey]
    /\ UNCHANGED <<_instances, _last_access, browser, clock, pc, to_close,
                   arg, result>>
    /\ UNCHANGED notPool

\* ---- destroy_instance / schedule_destroy ---------------------------------
\* A plausible slip: the reference count is not consulted.
DestroyLocked_NoGuard(inst, la, jobs, sid) ==
    [instances |-> [inst EXCEPT ![sid] = 0],
     last_access |-> LaPop(la, sid),
     to_close |-> IF inst[sid] # 0 THEN <<(<<sid, inst[sid]>>)>> ELSE <<>>]

\* Lines 125-133 and 143-151, the part under _pool_lock (the same in both).
DestroyLocked(inst, la, jobs, sid) ==
    IF jobs[sid] > 0
    THEN [instances |-> inst, last_access |-> la, to_close |-> <<>>]
    ELSE [instances |-> [inst EXCEPT ![sid] = 0],
          last_access |-> LaPop(la, sid),
          to_close |-> IF inst[sid] # 0 THEN <<(<<sid, inst[sid]>>)>> ELSE <<>>]

Destroy(t, sid) ==
    /\ pc[t] = "idle"
    /\ LET r == DestroyLocked(_instances, _last_access, _active_jobs, sid)
       IN /\ _instances' = r.instances
          /\ _last_access' = r.last_access
          /\ to_close' = [to_close EXCEPT ![t] = r.to_close]
          /\ pc' = [pc EXCEPT ![t] = IF Len(r.to_close) > 0 THEN "closing" ELSE "idle"]
    /\ UNCHANGED <<_active_jobs, browser, clock, arg, result, job>>
    /\ UNCHANGED notPool

\* destroy_instance returns inst.close(), which its caller awaits at once
\* (close_browser, browser_tools.py line 1171).
destroy_instance(t, sid) == Destroy(t, sid)

\* schedule_destroy calls _close_sync(inst) after releasing the lock.
schedule_destroy(t, sid) == Destroy(t, sid)

\* time.time() moves on.
Tick ==
    /\ clock < MaxClock
    /\ clock' = clock + 1
    /\ UNCHANGED <<_instances, _last_access, _active_jobs, browser,
                   pc, to_close, arg, result, job>>
    /\ UNCHANGED notPool

PoolInit ==
    /\ _instances = [k \in Keys |-> 0]
    /\ _last_access = <<>>
    /\ _active_jobs = [k \in Keys |-> 0]
    /\ browser = {}
    /\ clock = 0
    /\ pc = [t \in Threads |-> "idle"]
    /\ to_close = [t \in Threads |-> <<>>]
    /\ arg = [t \in Threads |-> NoKey]
    /\ result = [t \in Threads |-> 0]
    /\ job = [t \in Threads |-> NoKey]

PoolNext ==
    \/ \E t \in Threads, k \in Keys : get_instance(t, k)
    \/ \E t \in Threads : CloseNext(t)
    \/ \E t \in Threads : get_page(t)
    \/ \E t \in Threads, k \in Keys : acquire(t, k)
    \/ \E t \in Threads : release(t)
    \/ \E t \in Threads, k \in Keys : destroy_instance(t, k)
    \/ \E t \in Threads, k \in Keys : schedule_destroy(t, k)
    \/ Tick

\* ---- the parts at rest --------------------------------------------------
AskIdle ==
    /\ _input_requests = [k \in Keys |-> [ask |-> 0, response |-> 0]]
    /\ ask_pc = [a \in 1..MaxAsks |-> "idle"]
    /\ ask_key = [a \in 1..MaxAsks |-> NoKey]
    /\ ask_evt = [a \in 1..MaxAsks |-> FALSE]
    /\ ask_answered = [a \in 1..MaxAsks |-> FALSE]
    /\ ask_ret = [a \in 1..MaxAsks |-> 0]
    /\ h_pc = "idle"
    /\ n_msgs = 0
    /\ msg_key = [m \in 1..MaxMsgs |-> NoKey]
    /\ msg_seen = [m \in 1..MaxMsgs |-> 0]
    /\ msg_submit = [m \in 1..MaxMsgs |-> ""]
    /\ msg_fate = [m \in 1..MaxMsgs |-> ""]

GroupIdle ==
    /\ grp_pc = "idle"
    /\ grp_items = 0
    /\ grp_missing = FALSE
    /\ grp_step = 0
    /\ grp_elapsed = 0
    /\ grp_waited = 0
    /\ grp_supplier = ""
    /\ grp_status = ""
    /\ grp_error = ""

BridgeIdle ==
    /\ br_kind = ""
    /\ w_pc = "unstarted"
    /\ w_outcome = ""
    /\ w_produced = <<>>
    /\ progress_queue = <<>>
    /\ emitted = <<>>
    /\ emit_by = <<>>
    /\ result_q = <<>>
    /\ w_puts = 0
    /\ c_pc = "idle"
    /\ c_value = ""

JobIdle ==
    /\ job_pc = "idle"
    /\ job_groups = <<>>
    /\ job_status = ""
    /\ job_i = 0
    /\ job_login = ""
    /\ job_return = ""
    /\ results = <<>>
    /\ success_count = 0
    /\ fail_count = 0
    /\ run_pc = [g \in 1..MaxGroups |-> "unstarted"]
    /\ run_step = 0
    /\ run_last_step = 0
    /\ run_last_out = ""
    /\ run_elapsed = 0
    /\ other_holds = 0

\* BrowserManager.__init__ (line 62) and no login call.
LoginIdle ==
    /\ _logged_in = FALSE
    /\ logged_in_username = ""
    /\ cookies = ""
    /\ ctx_closed = FALSE
    /\ lg_pc = "idle"
    /\ lg_user = ""
    /\ lg_other = FALSE
    /\ lg_attempt = 0
    /\ lg_waited = 0
    /\ lg_result = ""

\* What a thread that is in no locked block has read.
NoSnap == [instances |-> <<>>, last_access |-> <<>>, jobs |-> <<>>]

\* browser_manager.py line 37: the lock is free.
LockIdle ==
    /\ _pool_lock = NoKey
    /\ lk_op = [t \in Threads |-> ""]
    /\ lk_snap = [t \in Threads |-> NoSnap]

\* The two threads of Part 8: the worker OS thread of _run_direct, which
\* runs _run_direct_async_inner, and the transport's thread, which runs the
\* request handlers.
Worker == "worker"
Transport == "transport"
RegThreads == {Worker, Transport}

\* The job when the worker thread is started: _run_direct has made the
\* update of line 748 on the transport's thread.
JobAtLogin == [status |-> "step4_login", steps |-> <<"step4_login">>, results |-> FALSE]

\* expense_service.py lines 50-51 and 748-790: no question pending, the lock
\* free, the worker thread just started.
RegIdle ==
    /\ _input_lock = NoKey
    /\ rg_pc = [t \in RegThreads |-> "idle"]
    /\ rg_op = [t \in RegThreads |-> ""]
    /\ rg_job = JobAtLogin
    /\ rg_requests = ""
    /\ rg_event = FALSE
    /\ rg_asks = 0
    /\ rg_served = 0
    /\ rg_seen = JobAtLogin
    /\ rg_access = {}

\* No pending review, and what a job that was not started was started with.
NoReview == [job_id |-> 0, grouped |-> <<>>]
NoArg == [kind |-> "", grouped |-> <<>>]

\* expense_service.py lines 119-123: no job and no pending review.
ReviewIdle ==
    /\ _pending_reviews = [sid \in Keys |-> NoReview]
    /\ rv_n = 0
    /\ rv_status = [j \in 1..MaxReviews |-> ""]
    /\ rv_steps = [j \in 1..MaxReviews |-> <<>>]
    /\ rv_session = [j \in 1..MaxReviews |-> NoKey]
    /\ rv_grouped = [j \in 1..MaxReviews |-> <<>>]
    /\ rv_exec = [j \in 1..MaxReviews |-> ""]
    /\ rv_arg = [j \in 1..MaxReviews |-> NoArg]
    /\ rv_sent = [j \in 1..MaxReviews |-> FALSE]
    /\ rv_callbacks = 0
    /\ rv_ret = ""

\* _group_records_by_tour has not been called.
GroupingIdle ==
    /\ gp_pc = "idle"
    /\ gp_records = <<>>
    /\ gp_type = ""
    /\ gp_grouped = <<>>

\* No job whose totals are followed has started.
TotalIdle ==
    /\ tl_pc = "idle"
    /\ tl_records = <<>>
    /\ tl_type = ""
    /\ tl_grouped = <<>>
    /\ tl_price = <<>>
    /\ tl_results = <<>>

\* The form page is not loaded.
SelectIdle ==
    /\ dd_pc = "idle"
    /\ dd_options = <<>>
    /\ dd_selected = 0
    /\ dd_changes = 0
    /\ dd_log = <<>>

\* No company payment section has been filled.
PayIdle ==
    /\ cp_pc = "idle"
    /\ cp_n = 0
    /\ cp_company = <<>>
    /\ cp_supplier = <<>>
    /\ cp_selected = 0
    /\ cp_pay_name = <<>>
    /\ cp_writes = <<>>

\* browser_manager.py lines 55-61: no worker has run and the session has no
\* handles.
HandleIdle ==
    /\ bh_job = 0
    /\ bh_pc = "idle"
    /\ bh_handles = 0
    /\ bh_drives = {}

\* Every specification starts from the state after import: the pool empty,
\* no question pending, no group started, no bridge call made, no job, the
\* session not logged in, the pool lock free.
Init ==
    /\ PoolInit
    /\ AskIdle
    /\ GroupIdle
    /\ BridgeIdle
    /\ JobIdle
    /\ LoginIdle
    /\ LockIdle
    /\ RegIdle
    /\ ReviewIdle
    /\ GroupingIdle
    /\ TotalIdle
    /\ SelectIdle
    /\ PayIdle
    /\ HandleIdle

PoolSpec == Init /\ [][PoolNext]_vars

(***************************************************************************)
(* Claims about the session pool.                                          *)
(***************************************************************************)

\* C1: no session is torn down while its in-use count is greater than zero:
\* whatever step is taken, a key whose count in _active_jobs is > 0 and that
\* has a manager in the pool keeps that manager in the pool.
C1_InUseSessionStaysInPool ==
    [][\A k \in Keys :
          (_active_jobs[k] > 0 /\ _instances[k] # 0) => _instances'[k] = _instances[k]]_vars

\* The sessions a step removes from the pool.
Evicted == {x \in Pool(_instances) : _instances'[x] = 0}

\* C2: when get_instance(k) is called for a key that is not in the pool, the
\* pool holds MAX_INSTANCES sessions and none of them is idle-expired, then
\* exactly one session is evicted: the one with the oldest last access among
\* those whose reference count is zero, never one whose count is non-zero.
C2_EvictsOldestUnreferenced ==
    [][\A t \in Threads, k \in Keys :
          ( /\ get_instance(t, k)
            /\ _instances[k] = 0
            /\ Cardinality(Pool(_instances)) >= MAX_INSTANCES
            /\ \A i \in 1..Len(_last_access) : ~(clock - _last_access[i].ts > IDLE_TIMEOUT) )
          => \E v \in Pool(_instances) :
                /\ _active_jobs[v] = 0
                /\ \A w \in Pool(_instances) :
                      _active_jobs[w] = 0 => LaGet(_last_access, w) >= LaGet(_last_access, v)
                /\ Evicted = {v}]_vars

C4_OneLiveSessionPerKey ==
    \A k \in Keys : Cardinality({m \in browser : m[1] = k}) <= 1

\* C5: destroy_instance(k) and schedule_destroy(k) called while k's count is
\* non-zero close nothing and leave _instances, _last_access and
\* _active_jobs unchanged; called with a zero count they remove k from
\* _instances and _last_access (and nothing else) and hand exactly k's
\* manager, if there was one, to close().
C5_DestroyRespectsRefCount ==
    [][\A t \in Threads, k \in Keys :
          (destroy_instance(t, k) \/ schedule_destroy(t, k)) =>
             IF _active_jobs[k] > 0
             THEN /\ UNCHANGED <<_instances, _last_access, _active_jobs, browser>>
                  /\ to_close'[t] = <<>>
                  /\ pc'[t] = "idle"
             ELSE /\ _instances' = [_instances EXCEPT ![k] = 0]
                  /\ _last_access' = LaPop(_last_access, k)
                  /\ k \notin LaKeys(_last_access')
                  /\ UNCHANGED _active_jobs
                  /\ to_close'[t] = IF _instances[k] # 0
                                    THEN <<(<<k, _instances[k]>>)>> ELSE <<>>
                  /\ pc'[t] = IF _instances[k] # 0 THEN "closing" ELSE "idle"]_vars

\* A destroy with a zero count has removed the key's manager from the pool
\* and is about to close it (a thread that is closing without holding a
\* result is in destroy_instance or schedule_destroy).
C5_Witness ==
    \E t \in Threads, k \in Keys :
        /\ pc[t] = "closing" /\ result[t] = 0
        /\ Len(to_close[t]) = 1 /\ to_close[t][1][1] = k
        /\ _instances[k] = 0 /\ k \notin LaKeys(_last_access)
        /\ _active_jobs[k] = 0
        /\ \E u \in Threads : job[u] # NoKey

\* C6: the number of sessions in the pool never exceeds MAX_INSTANCES.
C6_PoolWithinCapacity == Cardinality(Pool(_instances)) <= MAX_INSTANCES

\* get_instance has just evicted the least recently used session to make
\* room (at clock 0 nothing is idle-expired), and the pool is full again.
C6_Witness ==
    \E t \in Threads :
        /\ pc[t] = "closing" /\ result[t] # 0 /\ clock = 0
        /\ Cardinality(Pool(_instances)) = MAX_INSTANCES

(***************************************************************************)
(* Part 2: the pending-question table (_ask_user, submit_user_input,       *)
(* has_pending_input) and the chat handler that routes answers to it.      *)
(* _ask_user runs on a worker OS thread, handle_user_message on the        *)
(* transport's thread; each "with _input_lock" block is one step.          *)
(***************************************************************************)

NoRequest == [ask |-> 0, response |-> 0]

\* has_pending_input, lines 65-68.
has_pending_input(reqs, sid) == reqs[sid].ask # 0

\* submit_user_input, lines 54-62: the new table, the Event it sets (0: none)
\* and its return value.
submit_user_input(reqs, sid, text) ==
    IF reqs[sid].ask # 0
    THEN [requests |-> [reqs EXCEPT ![sid].response = text],
          sets |-> reqs[sid].ask,
          returns |-> TRUE]
    ELSE [requests |-> reqs, sets |-> 0, returns |-> FALSE]

\* _ask_user, lines 77-84: a new Event, the request stored under the key
\* (replacing what was there), the question emitted.
AskOpen(a, sid) ==
    /\ ask_pc[a] = "idle"
    /\ a > 1 => ask_pc[a - 1] # "idle"
    /\ _input_requests' = [_input_requests EXCEPT ![sid] = [ask |-> a, response |-> 0]]
    /\ ask_evt' = [ask_evt EXCEPT ![a] = FALSE]
    /\ ask_key' = [ask_key EXCEPT ![a] = sid]
    /\ ask_pc' = [ask_pc EXCEPT ![a] = "waiting"]
    /\ UNCHANGED <<ask_answered, ask_ret, h_pc, n_msgs, msg_key, msg_seen,
                   msg_submit, msg_fate>>
    /\ UNCHANGED notAsk

\* Line 86, evt.wait(timeout) returns True: the Event was set.
AskWakeSet(a) ==
    /\ ask_pc[a] = "waiting"
    /\ ask_evt[a]
    /\ ask_answered' = [ask_answered EXCEPT ![a] = TRUE]
    /\ ask_pc' = [ask_pc EXCEPT ![a] = "woken"]
    /\ UNCHANGED <<_input_requests, ask_key, ask_evt, ask_ret, h_pc, n_msgs,
                   msg_key, msg_seen, msg_submit, msg_fate>>
    /\ UNCHANGED notAsk

\* Line 86, evt.wait(timeout) returns False: the wait elapsed with the
\* Event not set.
AskWakeTimeout(a) ==
    /\ ask_pc[a] = "waiting"
    /\ ~ask_evt[a]
    /\ ask_answered' = [ask_answered EXCEPT ![a] = FALSE]
    /\ ask_pc' = [ask_pc EXCEPT ![a] = "woken"]
    /\ UNCHANGED <<_input_requests, ask_key, ask_evt, ask_ret, h_pc, n_msgs,
                   msg_key, msg_seen, msg_submit, msg_fate>>
    /\ UNCHANGED notAsk

\* Lines 88-96: the entry under the key is popped, whatever it is, and the
\* response is returned if the wait was answered.
AskClose(a) ==
    /\ ask_pc[a] = "woken"
    /\ LET req == _input_requests[ask_key[a]]
       IN ask_ret' = [ask_ret EXCEPT ![a] =
                         IF ask_answered[a] /\ req.response # 0 THEN req.response ELSE 0]
    /\ _input_requests' = [_input_requests EXCEPT ![ask_key[a]] = NoRequest]
    /\ ask_pc' = [ask_pc EXCEPT ![a] = "done"]
    /\ UNCHANGED <<ask_key, ask_evt, ask_answered, h_pc, n_msgs, msg_key,
                   msg_seen, msg_submit, msg_fate>>
    /\ UNCHANGED notAsk

\* handle_user_message, lines 59-95 and 100-143, for the next message of a
\* connection whose session key is sid: a text-only message is checked
\* against the table; a message with a file, and a text for which nothing
\* is pending, go on to review handling / intent classification.
HandlerReceive(sid, text_only) ==
    /\ h_pc = "idle"
    /\ n_msgs < MaxMsgs
    /\ n_msgs' = n_msgs + 1
    /\ msg_key' = [msg_key EXCEPT ![n_msgs + 1] = sid]
    /\ IF text_only /\ has_pending_input(_input_requests, sid)
       THEN /\ h_pc' = "checked"
            /\ msg_seen' = [msg_seen EXCEPT ![n_msgs + 1] = _input_requests[sid].ask]
            /\ UNCHANGED msg_fate
       ELSE /\ msg_fate' = [msg_fate EXCEPT ![n_msgs + 1] = "passed_on"]
            /\ UNCHANGED <<h_pc, msg_seen>>
    /\ UNCHANGED <<_input_requests, ask_pc, ask_key, ask_evt, ask_answered,
                   ask_ret, msg_submit>>
    /\ UNCHANGED notAsk

\* handle_user_message, lines 96-98: submit_user_input, whose return value
\* is not looked at, and return.
HandlerSubmit ==
    /\ h_pc = "checked"
    /\ LET r == submit_user_input(_input_requests, msg_key[n_msgs], n_msgs)
       IN /\ _input_requests' = r.requests
          /\ ask_evt' = IF r.sets # 0 THEN [ask_evt EXCEPT ![r.sets] = TRUE] ELSE ask_evt
          /\ msg_submit' = [msg_submit EXCEPT ![n_msgs] =
                               IF r.returns THEN "True" ELSE "False"]
    /\ msg_fate' = [msg_fate EXCEPT ![n_msgs] = "answer"]
    /\ h_pc' = "idle"
    /\ UNCHANGED <<ask_pc, ask_key, ask_answered, ask_ret, n_msgs, msg_key, msg_seen>>
    /\ UNCHANGED notAsk

AskNext ==
    \/ \E a \in 1..MaxAsks, k \in Keys : AskOpen(a, k)
    \/ \E a \in 1..MaxAsks : AskWakeSet(a)
    \/ \E a \in 1..MaxAsks : AskWakeTimeout(a)
    \/ \E a \in 1..MaxAsks : AskClose(a)
    \/ \E k \in Keys, text_only \in BOOLEAN : HandlerReceive(k, text_only)
    \/ HandlerSubmit

AskSpec == Init /\ [][AskNext]_vars

\* C7: once _ask_user has opened a question for a session key, the next
\* text-only message handle_user_message receives for that key is delivered
\* as the answer to that question (it is what that _ask_user call returns)
\* and is not passed on; a message received while no question is open for
\* its key is never consumed as an answer.
C7_NextMessageAnswersQuestion ==
    /\ \A m \in 1..n_msgs :
          /\ msg_fate[m] = "answer" => msg_seen[m] # 0
          /\ msg_fate[m] = "passed_on" => msg_seen[m] = 0
    /\ \A a \in 1..MaxAsks :
          ask_pc[a] = "done" =>
             LET M == {m \in 1..n_msgs : msg_seen[m] = a /\ msg_fate[m] = "answer"}
             IN M # {} => ask_ret[a] = CHOOSE m \in M : \A x \in M : m <= x

\* Every _ask_user call has returned or was never made.
NoAskOpen == \A a \in 1..MaxAsks : ask_pc[a] \in {"idle", "done"}

\* C31: a message for which submit_user_input returned True is what the
\* waiting _ask_user call returns: once no call is waiting any more, some
\* call has returned that message.
C31_ConsumedMessageIsReturned ==
    \A m \in 1..n_msgs :
        (msg_submit[m] = "True" /\ NoAskOpen) => \E a \in 1..MaxAsks : ask_ret[a] = m

\* C32: a message that handle_user_message does not pass on to review
\* handling or intent processing has been delivered to a question:
\* submit_user_input returned True for it.
C32_MessageDeliveredOrPassedOn ==
    \A m \in 1..n_msgs :
        msg_fate[m] = "answer" => msg_submit[m] = "True"

\* C33: a question that is open stays in the table until its own call
\* closes it, also when another call on the same session key opens or
\* closes a question: the entry under the key of a waiting call is that
\* call's own.
C33_QuestionsOpenIndependently ==
    \A a \in 1..MaxAsks :
        ask_pc[a] \in {"waiting", "woken"} => _input_requests[ask_key[a]].ask = a

(***************************************************************************)
(* Part 3: one group's WorkflowRun (_process_tour_group) inside            *)
(* asyncio.wait_for(..., timeout=120 + n_items * 30).  Time is counted in  *)
(* seconds.  The event loop of the worker thread runs the timeout callback *)
(* only when the coroutine is suspended at an await; _ask_user blocks the  *)
(* thread itself (Event.wait), so no callback runs during the wait.        *)
(***************************************************************************)

\* Line 1085: the timeout _process_tour_group passes to _ask_user.
ASK_TIMEOUT == 180

\* Line 881: timeout_secs = 120 + (n_items * 30).
GROUP_BASE_SECS == 120
GROUP_ITEM_SECS == 30

timeout_secs(n_items) == GROUP_BASE_SECS + (n_items * GROUP_ITEM_SECS)

\* The awaited page steps of _process_tour_group in program order, and the
\* ones whose failed status ends the run (lines 1201, 1225, 1283).
Steps ==
    <<"search_program_code", "navigate_to_charges_form", "select_program_and_tour",
      "fill_expense_rows", "click_add_company_expense", "fill_company_expense",
      "submit_form", "extract_order_number", "manage_page">>

FatalSteps == {"navigate_to_charges_form", "fill_expense_rows", "submit_form"}

\* How long the user takes to answer, and how long a page step takes.
AnswerDelays == {30, 120, 150}
StepDurations == {0, 30, 90}

\* Lines 865-892 and 1061-1076: wait_for starts the group; translate_supplier_name
\* has found a supplier in the document or not, and the first record carries
\* a program code or search_program_code has to look it up (line 1104).
GroupStart(n, missing, has_program_code) ==
    /\ grp_pc = "idle"
    /\ grp_items' = n
    /\ grp_missing' = missing
    /\ grp_elapsed' = 0
    /\ grp_waited' = 0
    /\ grp_step' = IF has_program_code THEN 2 ELSE 1
    /\ grp_supplier' = IF missing THEN "" ELSE "document"
    /\ grp_pc' = IF missing THEN "asking" ELSE "steps"
    /\ UNCHANGED <<grp_status, grp_error>>
    /\ UNCHANGED notGroup

\* Lines 1079-1089: the user answers after d seconds, within the wait.
GroupAskAnswered(d) ==
    /\ grp_pc = "asking"
    /\ d < ASK_TIMEOUT
    /\ grp_elapsed' = grp_elapsed + d
    /\ grp_waited' = grp_waited + d
    /\ grp_supplier' = "answered"
    /\ grp_pc' = "steps"
    /\ UNCHANGED <<grp_items, grp_missing, grp_step, grp_status, grp_error>>
    /\ UNCHANGED notGroup

\* Lines 1079-1091: nobody answers; _ask_user returns None after its timeout
\* and the supplier is left blank.
GroupAskUnanswered ==
    /\ grp_pc = "asking"
    /\ grp_elapsed' = grp_elapsed + ASK_TIMEOUT
    /\ grp_waited' = grp_waited + ASK_TIMEOUT
    /\ grp_supplier' = "blank"
    /\ grp_pc' = "steps"
    /\ UNCHANGED <<grp_items, grp_missing, grp_step, grp_status, grp_error>>
    /\ UNCHANGED notGroup

\* The outcome of awaiting a page step that would take d seconds and return
\* ok, begun at time now under the deadline: the timeout callback runs as
\* soon as the loop is entered with the deadline passed, or when it passes
\* during the await; the step is then cancelled and wait_for raises
\* TimeoutError, which line 893 turns into a failed entry.
AwaitStep(now, deadline, d) ==
    IF now >= deadline THEN [timed_out |-> TRUE, at |-> now]
    ELSE IF now + d >= deadline THEN [timed_out |-> TRUE, at |-> deadline]
    ELSE [timed_out |-> FALSE, at |-> now + d]

\* One awaited page step (lines 1104, 1191-1307) and what follows it: the
\* next step, the return of a failed or success result, or the timeout
\* branch of _run_direct_async_inner (lines 893-901).
GroupStep(d, ok) ==
    /\ grp_pc = "steps"
    /\ LET r == AwaitStep(grp_elapsed, timeout_secs(grp_items), d)
           name == Steps[grp_step]
       IN /\ grp_elapsed' = r.at
          /\ IF r.timed_out
             THEN /\ grp_status' = "failed"
                  /\ grp_error' = "Timed out"
                  /\ grp_pc' = "done"
                  /\ UNCHANGED grp_step
             ELSE IF ~ok /\ name \in FatalSteps
             THEN /\ grp_status' = "failed"
                  /\ grp_error' = name
                  /\ grp_pc' = "done"
                  /\ UNCHANGED grp_step
             ELSE IF grp_step = Len(Steps)
             THEN /\ grp_status' = "success"
                  /\ grp_pc' = "done"
                  /\ UNCHANGED <<grp_step, grp_error>>
             ELSE /\ grp_step' = grp_step + 1
                  /\ UNCHANGED <<grp_pc, grp_status, grp_error>>
    /\ UNCHANGED <<grp_items, grp_missing, grp_waited, grp_supplier>>
    /\ UNCHANGED notGroup

GroupNext ==
    \/ \E n \in 1..MaxItems, missing \in BOOLEAN, has_program_code \in BOOLEAN :
          GroupStart(n, missing, has_program_code)
    \/ \E d \in AnswerDelays : GroupAskAnswered(d)
    \/ GroupAskUnanswered
    \/ \E d \in StepDurations, ok \in BOOLEAN : GroupStep(d, ok)

GroupSpec == Init /\ [][GroupNext]_vars

\* C8: if the supplier question is not answered within its wait, the run
\* goes on with the supplier left blank and the group is not reported
\* failed or timed out because of the wait, whatever its number of line
\* items: the group is reported timed out only if its own page steps used
\* up the allowance of 120 + 30 * n_items seconds.
C8_UnansweredWaitIsNotFailure ==
    (grp_pc = "done" /\ grp_supplier = "blank" /\ grp_error = "Timed out")
        => grp_elapsed - grp_waited >= timeout_secs(grp_items)

(***************************************************************************)
(* Part 4: the OS-thread bridge.  run_in_thread (browser_manager.py) and   *)
(* _run_direct (expense_service.py) start a worker thread that runs the    *)
(* coroutine on its own event loop and puts the outcome on result_q; the   *)
(* calling greenlet polls t.is_alive(), and in _run_direct it also drains  *)
(* the progress queue the worker fills through thread_safe_emit.           *)
(***************************************************************************)

Bridges == {"run_in_thread", "_run_direct"}

\* How the coroutine can end: by returning, by raising an Exception, or by
\* raising a BaseException that is not an Exception (asyncio.CancelledError,
\* SystemExit, KeyboardInterrupt).
Outcomes == {"ok", "Exception", "BaseException"}

\* The entries the worker's try/except puts on result_q for an outcome:
\* `except Exception` does not catch the third.
WorkerPuts(outcome) ==
    IF outcome = "ok" THEN << <<"ok", "result">> >>
    ELSE IF outcome = "Exception" THEN << <<"error", "Exception">> >>
    ELSE <<>>

\* t.start(): the caller enters its polling loop, the worker starts running.
BridgeStart(kind) ==
    /\ c_pc = "idle"
    /\ br_kind' = kind
    /\ w_pc' = "running"
    /\ c_pc' = "poll"
    /\ UNCHANGED <<w_outcome, w_produced, progress_queue, emitted, emit_by, result_q,
                   w_puts, c_value>>
    /\ UNCHANGED notBridge

\* A wrapper that calls the transport's emit function itself, on the worker
\* thread.
thread_safe_emit_Direct ==
    /\ w_pc = "running"
    /\ br_kind = "_run_direct"
    /\ Len(w_produced) < MaxEvents
    /\ LET e == Len(w_produced) + 1
       IN /\ w_produced' = Append(w_produced, e)
          /\ emitted' = Append(emitted, e)
          /\ emit_by' = Append(emit_by, "worker")
    /\ UNCHANGED <<br_kind, w_pc, w_outcome, progress_queue, result_q, w_puts, c_pc, c_value>>
    /\ UNCHANGED notBridge

\* thread_safe_emit: the coroutine of _run_direct emits its next progress
\* event, which goes onto progress_queue.
thread_safe_emit ==
    /\ w_pc = "running"
    /\ br_kind = "_run_direct"
    /\ Len(w_produced) < MaxEvents
    /\ LET e == Len(w_produced) + 1
       IN /\ w_produced' = Append(w_produced, e)
          /\ progress_queue' = Append(progress_queue, e)
    /\ UNCHANGED <<br_kind, w_pc, w_outcome, emitted, emit_by, result_q, w_puts, c_pc, c_value>>
    /\ UNCHANGED notBridge

\* _worker: run_until_complete returns or raises, and the try/except puts
\* what it catches on result_q.
WorkerFinish(outcome) ==
    /\ w_pc = "running"
    /\ w_outcome' = outcome
    /\ result_q' = result_q \o WorkerPuts(outcome)
    /\ w_puts' = w_puts + Len(WorkerPuts(outcome))
    /\ w_pc' = "finally"
    /\ UNCHANGED <<br_kind, w_produced, progress_queue, emitted, emit_by, c_pc, c_value>>
    /\ UNCHANGED notBridge

\* _worker: the finally clause closes the loop and the thread ends.
WorkerExit ==
    /\ w_pc = "finally"
    /\ w_pc' = "dead"
    /\ UNCHANGED <<br_kind, w_outcome, w_produced, progress_queue, emitted, emit_by,
                   result_q, w_puts, c_pc, c_value>>
    /\ UNCHANGED notBridge

\* Where the caller goes after testing t.is_alive(): _run_direct drains the
\* queue in the loop body and once more after the loop; run_in_thread only
\* sleeps.
AfterAlive_NoFinalDrain(kind, alive) ==
    IF kind = "_run_direct"
    THEN (IF alive THEN "drain" ELSE "get")
    ELSE (IF alive THEN "sleep" ELSE "get")

AfterAlive(kind, alive) ==
    IF kind = "_run_direct"
    THEN (IF alive THEN "drain" ELSE "final_drain")
    ELSE (IF alive THEN "sleep" ELSE "get")

\* while t.is_alive():
CallerPoll ==
    /\ c_pc = "poll"
    /\ c_pc' = AfterAlive(br_kind, w_pc # "dead")
    /\ UNCHANGED <<br_kind, w_pc, w_outcome, w_produced, progress_queue, emitted, emit_by,
                   result_q, w_puts, c_value>>
    /\ UNCHANGED notBridge

\* _drain_queue, one turn of its loop: the queue is not empty, so the
\* caller takes the head with get_nowait and passes it to _emit.
DrainOne ==
    /\ c_pc \in {"drain", "final_drain"}
    /\ progress_queue # <<>>
    /\ emitted' = Append(emitted, Head(progress_queue))
    /\ emit_by' = Append(emit_by, "greenlet")
    /\ progress_queue' = Tail(progress_queue)
    /\ UNCHANGED <<br_kind, w_pc, w_outcome, w_produced, result_q, w_puts,
                   c_pc, c_value>>
    /\ UNCHANGED notBridge

\* _drain_queue finds the queue empty and returns: to the sleep of the
\* polling loop, or after the final drain to result_q.get_nowait().
DrainEnd ==
    /\ c_pc \in {"drain", "final_drain"}
    /\ progress_queue = <<>>
    /\ c_pc' = IF c_pc = "drain" THEN "sleep" ELSE "get"
    /\ UNCHANGED <<br_kind, w_pc, w_outcome, w_produced, progress_queue, emitted, emit_by,
                   result_q, w_puts, c_value>>
    /\ UNCHANGED notBridge

\* eventlet.sleep(0.2) / eventlet.sleep(0.3)
CallerSleep ==
    /\ c_pc = "sleep"
    /\ c_pc' = "poll"
    /\ UNCHANGED <<br_kind, w_pc, w_outcome, w_produced, progress_queue, emitted, emit_by,
                   result_q, w_puts, c_value>>
    /\ UNCHANGED notBridge

\* status, value = result_q.get_nowait(); raise value or return it.  On an
\* empty queue get_nowait raises queue.Empty in the caller.
CallerGet ==
    /\ c_pc = "get"
    /\ IF result_q = <<>>
       THEN /\ c_pc' = "raised"
            /\ c_value' = "queue.Empty"
            /\ UNCHANGED result_q
       ELSE /\ c_pc' = IF Head(result_q)[1] = "error" THEN "raised" ELSE "returned"
            /\ c_value' = Head(result_q)[2]
            /\ result_q' = Tail(result_q)
    /\ UNCHANGED <<br_kind, w_pc, w_outcome, w_produced, progress_queue, emitted, emit_by, w_puts>>
    /\ UNCHANGED notBridge

BridgeNext ==
    \/ \E kind \in Bridges : BridgeStart(kind)
    \/ thread_safe_emit
    \/ \E outcome \in Outcomes : WorkerFinish(outcome)
    \/ WorkerExit
    \/ CallerPoll
    \/ DrainOne
    \/ DrainEnd
    \/ CallerSleep
    \/ CallerGet

BridgeSpec == Init /\ [][BridgeNext]_vars

\* C9: every progress event the worker produced is passed to the transport
\* by the caller exactly once and in the order produced (what was emitted,
\* followed by what is still queued, is what was produced), and when
\* _run_direct returns the progress queue is empty and everything produced
\* has been emitted.
C9_ProgressReplayedInOrder ==
    /\ emitted \o progress_queue = w_produced
    /\ (br_kind = "_run_direct" /\ c_pc = "returned") =>
          /\ progress_queue = <<>>
          /\ emitted = w_produced

\* _run_direct has returned the result after the worker produced MaxEvents
\* events and the caller re-emitted every one of them.
C9_Witness ==
    /\ br_kind = "_run_direct"
    /\ c_pc = "returned"
    /\ c_value = "result"
    /\ Len(emitted) = MaxEvents
    /\ emitted = w_produced

\* C10: the bridge returns the coroutine's result when it completes
\* normally and re-raises its exception otherwise; in every case the worker
\* has put exactly one entry on the result queue before it ends, so the
\* caller never finds the queue empty.
C10_ResultOrExceptionReachesCaller ==
    /\ w_pc \in {"finally", "dead"} => w_puts = 1
    /\ c_pc = "returned" => (w_outcome = "ok" /\ c_value = "result")
    /\ c_pc = "raised" => (w_outcome # "ok" /\ c_value = w_outcome)

\* C26: the transport's emit function is called by the calling greenlet
\* only, never by the worker thread; an event the worker produces goes onto
\* progress_queue and nowhere else, and an event reaches the emit function
\* only when the greenlet, draining, takes it off the head of the queue.
C26_EmitOnlyFromGreenlet ==
    /\ [](\A k \in 1..Len(emit_by) : emit_by[k] = "greenlet")
    /\ [][/\ w_produced' # w_produced =>
               /\ progress_queue' = Append(progress_queue, w_produced'[Len(w_produced')])
               /\ emitted' = emitted
          /\ emitted' # emitted =>
               /\ c_pc \in {"drain", "final_drain"}
               /\ progress_queue # <<>>
               /\ emitted' = Append(emitted, Head(progress_queue))
               /\ progress_queue' = Tail(progress_queue)]_vars

\* The worker is still running, the greenlet has passed its first events to
\* the emit function and a later one waits on the queue.
C26_Witness ==
    /\ br_kind = "_run_direct"
    /\ w_pc = "running"
    /\ Len(emit_by) >= 1
    /\ progress_queue # <<>>

(***************************************************************************)
(* Part 5: one expense job.  _run_direct_async acquires the session key,   *)
(* _run_direct_async_inner logs in and runs the WorkflowRun of each group  *)
(* in turn under asyncio.wait_for, appends one entry per group to results, *)
(* and the finally clause releases the key.  Everything between two awaits *)
(* is one step of the worker's event loop.                                 *)
(***************************************************************************)

\* The session key of the job.
JobKey == "a"

\* The awaited steps of _process_tour_group in program order: the program
\* code lookup (line 1104), the form steps (lines 1191-1281, with the
\* re-login and second navigation of lines 1195-1199), the order number
\* (line 1287) and the two steps of the manage page (lines 1293-1307).
RunSteps ==
    <<"search_program_code", "navigate_to_charges_form", "login",
      "navigate_to_charges_form", "select_program_and_tour", "fill_expense_rows",
      "click_add_company_expense", "fill_company_expense", "submit_form",
      "extract_order_number", "navigate_to_manage_page", "fill_manage_page_details">>

SubmitStep == CHOOSE i \in 1..Len(RunSteps) : RunSteps[i] = "submit_form"

ManageSteps == {"navigate_to_manage_page", "fill_manage_page_details"}

\* Lines 1295 and 1306: the inner wait_for of each manage page step.
MANAGE_TIMEOUT == 30

\* What a step does: it returns a result with status success or failed
\* ("expired": failed with a message that names the login page), or raises
\* (get_page is called outside the try of every browser_tools function).
StepOutcomes == {"success", "failed", "expired", "raise"}

\* How long the worker is blocked in _ask_user at the start of a run: not at
\* all (the document names the supplier, or the answer comes at once), or
\* for the whole wait.
AskWaits == {0, ASK_TIMEOUT}

\* How long a step of a run takes.
RunDurations == {0, 60}

\* A manage page step that takes longer than its inner wait_for is cancelled
\* there and raises TimeoutError, caught at line 1316.
StepTime(name, d) ==
    IF name \in ManageSteps /\ d > MANAGE_TIMEOUT THEN MANAGE_TIMEOUT ELSE d

StepResult(name, d, out) ==
    IF name \in ManageSteps /\ d > MANAGE_TIMEOUT THEN "raise" ELSE out

\* A control flow that goes on to the next step whatever a step returned.
NextStep_NoShortCircuit(i, out) ==
    IF out = "raise" THEN -1
    ELSE IF i = 2 THEN 5
    ELSE IF i < Len(RunSteps) THEN i + 1
    ELSE 0

\* A control flow that logs in again and navigates again every time the
\* navigation ends on the login page.
NextStep_RetryAgain(i, out) ==
    IF out = "raise" THEN -1
    ELSE IF RunSteps[i] = "navigate_to_charges_form" THEN
        (IF out = "success" THEN 5 ELSE IF out = "expired" THEN 3 ELSE -1)
    ELSE IF RunSteps[i] = "login" THEN (IF out = "success" THEN 4 ELSE -1)
    ELSE IF RunSteps[i] \in {"fill_expense_rows", "submit_form"} THEN
        (IF out = "success" THEN i + 1 ELSE -1)
    ELSE IF i < Len(RunSteps) THEN i + 1
    ELSE 0

\* The control flow of _process_tour_group after step i has ended with out:
\* the index of the next step, 0 for the return of the success entry
\* (line 1320), -1 for the return of a failed entry (lines 1201, 1225, 1283
\* and 1359).
NextStep(i, out) ==
    LET name == RunSteps[i]
    IN  IF name = "search_program_code" THEN i + 1
        ELSE IF name = "navigate_to_charges_form" THEN
            (IF out = "success" THEN 5
             ELSE IF out = "expired" /\ i = 2 THEN 3
             ELSE -1)
        ELSE IF name = "login" THEN (IF out = "success" THEN 4 ELSE -1)
        ELSE IF name \in {"fill_expense_rows", "submit_form"} THEN
            (IF out = "success" THEN i + 1 ELSE -1)
        ELSE IF name \in {"select_program_and_tour", "click_add_company_expense",
                          "fill_company_expense", "extract_order_number"} THEN
            (IF out = "raise" THEN -1 ELSE i + 1)
        ELSE IF name = "navigate_to_manage_page" THEN
            (IF out = "success" THEN i + 1 ELSE 0)
        ELSE 0

\* The error of the failed entry a run returns after step i ended with out:
\* str(e) for an exception, else the message of the step (of the navigation
\* when the re-login failed).
ErrorOf(i, out) ==
    IF out = "raise" THEN "exception"
    ELSE IF RunSteps[i] = "login" THEN "navigate_to_charges_form"
    ELSE RunSteps[i]

\* Lines 893-901: the entry _run_direct_async_inner builds when wait_for
\* raises.
TimeoutEntry(g) == [group |-> g, status |-> "failed", error |-> "Timed out"]

\* The state of a WorkflowRun that wait_for has timed out: wait_for cancels
\* the task and awaits its end before it raises.
AfterTimeout_NotCancelled == "running"

AfterTimeout == "ended"

\* Line 902: results.append(entry_result).
AppendResult_Overwrite(res, entry) == <<entry>>

AppendResult(res, entry) == Append(res, entry)

\* Where _run_direct_async_inner goes after login (line 850).
AfterLogin_Ignored(out) == IF out = "raise" THEN "ended" ELSE "next_group"

AfterLogin(out) == IF out = "success" THEN "next_group" ELSE "ended"

\* Lines 826-836: the finally clause releases the key however the inner
\* coroutine ended.
FinallyRelease_OnlyOnReturn(jobs, sid, raised) ==
    IF raised THEN jobs ELSE ReleaseLocked(jobs, sid)

FinallyRelease(jobs, sid, raised) == ReleaseLocked(jobs, sid)

\* _run_direct (line 748) and _run_direct_async (lines 823-824): the job is
\* handed its grouped records, acquires the session key and calls login.
JobStart(groups) ==
    /\ job_pc = "idle"
    /\ job_groups' = groups
    /\ job_status' = "step4_login"
    /\ _active_jobs' = AcquireLocked(_active_jobs, JobKey)
    /\ job_pc' = "login"
    /\ UNCHANGED <<job_i, job_login, job_return, results, success_count, fail_count,
                   run_pc, run_step, run_last_step, run_last_out, run_elapsed, other_holds>>
    /\ UNCHANGED notJob

\* Lines 845-863: login returns or raises.  A failed login sets the job
\* failed and returns the login message; the finally clause of
\* _run_direct_async then releases the key.
JobLogin(out) ==
    /\ job_pc = "login"
    /\ job_login' = out
    /\ job_pc' = AfterLogin(out)
    /\ IF job_pc' = "ended"
       THEN /\ job_status' = IF out = "failed" THEN "failed" ELSE job_status
            /\ job_return' = IF out = "failed" THEN "login_failed" ELSE "raised"
            /\ _active_jobs' = FinallyRelease(_active_jobs, JobKey, out = "raise")
       ELSE UNCHANGED <<job_status, job_return, _active_jobs>>
    /\ UNCHANGED <<job_groups, job_i, results, success_count, fail_count,
                   run_pc, run_step, run_last_step, run_last_out, run_elapsed, other_holds>>
    /\ UNCHANGED notJob

\* Lines 865-892 and 1061-1104: the loop takes the next group, wait_for
\* starts its WorkflowRun, which runs up to its first await: it asks for a
\* missing supplier name (blocking the thread) and skips the program code
\* lookup when the first record carries a program code.
JobGroupStart(has_program_code, ask_wait) ==
    /\ job_pc = "next_group"
    /\ job_i < Len(job_groups)
    /\ job_i' = job_i + 1
    /\ run_pc' = [run_pc EXCEPT ![job_i + 1] = "running"]
    /\ run_step' = IF has_program_code THEN 2 ELSE 1
    /\ run_last_step' = 0
    /\ run_last_out' = ""
    /\ run_elapsed' = ask_wait
    /\ job_pc' = "in_group"
    /\ UNCHANGED <<job_groups, job_status, job_login, job_return, results,
                   success_count, fail_count, other_holds, _active_jobs>>
    /\ UNCHANGED notJob

\* Lines 902-920: the loop records the entry of the group that has ended.
RecordEntry(entry) ==
    /\ results' = AppendResult(results, entry)
    /\ success_count' = IF entry.status = "success" THEN success_count + 1
                        ELSE success_count
    /\ fail_count' = IF entry.status = "success" THEN fail_count
                     ELSE fail_count + 1

\* One awaited step of the WorkflowRun of group g, taking d seconds and
\* ending with out, and what the event loop runs after it up to the next
\* await: the next step, or the return of the run's entry and the loop tail
\* of _run_direct_async_inner, or the timeout branch (lines 893-901).
RunStep(g, d, out) ==
    /\ run_pc[g] = "running"
    /\ LET i == run_step
           name == RunSteps[i]
           r == AwaitStep(run_elapsed, timeout_secs(job_groups[g]), StepTime(name, d))
           o == StepResult(name, d, out)
           nxt == NextStep(i, o)
       IN /\ out = "expired" => name = "navigate_to_charges_form"
          /\ run_elapsed' = r.at
          /\ run_last_step' = i
          /\ IF r.timed_out
             THEN /\ run_last_out' = "cancelled"
                  /\ run_pc' = [run_pc EXCEPT ![g] = AfterTimeout]
                  /\ RecordEntry(TimeoutEntry(g))
                  /\ job_pc' = "next_group"
                  /\ run_step' = 0
             ELSE /\ run_last_out' = o
                  /\ IF nxt > 0
                     THEN /\ run_step' = nxt
                          /\ UNCHANGED <<run_pc, results, success_count, fail_count, job_pc>>
                     ELSE /\ run_pc' = [run_pc EXCEPT ![g] = "ended"]
                          /\ RecordEntry(IF nxt = 0
                                         THEN [group |-> g, status |-> "success", error |-> ""]
                                         ELSE [group |-> g, status |-> "failed",
                                               error |-> ErrorOf(i, o)])
                          /\ job_pc' = "next_group"
                          /\ run_step' = 0
    /\ UNCHANGED <<job_groups, job_status, job_i, job_login, job_return,
                   other_holds, _active_jobs>>
    /\ UNCHANGED notJob

\* Lines 922-1009 and 835-836: after the last group the job is completed,
\* the CSV and JSON reports are written (which can raise), the structured
\* results are returned and the finally clause releases the key.
JobFinish(written) ==
    /\ job_pc = "next_group"
    /\ job_i = Len(job_groups)
    /\ job_status' = "completed"
    /\ job_return' = IF written THEN "summary" ELSE "raised"
    /\ _active_jobs' = FinallyRelease(_active_jobs, JobKey, ~written)
    /\ job_pc' = "ended"
    /\ UNCHANGED <<job_groups, job_i, job_login, results, success_count, fail_count,
                   run_pc, run_step, run_last_step, run_last_out, run_elapsed, other_holds>>
    /\ UNCHANGED notJob

\* Another job on the same session key (the market analysis agent acquires
\* and releases the key of the session it is started from).
OtherAcquire ==
    /\ other_holds = 0
    /\ other_holds' = 1
    /\ _active_jobs' = AcquireLocked(_active_jobs, JobKey)
    /\ UNCHANGED <<job_pc, job_groups, job_status, job_i, job_login, job_return,
                   results, success_count, fail_count, run_pc, run_step,
                   run_last_step, run_last_out, run_elapsed>>
    /\ UNCHANGED notJob

OtherRelease ==
    /\ other_holds = 1
    /\ other_holds' = 0
    /\ _active_jobs' = ReleaseLocked(_active_jobs, JobKey)
    /\ UNCHANGED <<job_pc, job_groups, job_status, job_i, job_login, job_return,
                   results, success_count, fail_count, run_pc, run_step,
                   run_last_step, run_last_out, run_elapsed>>
    /\ UNCHANGED notJob

\* The sizes of a group: a single record, or MaxItems records.
ItemCounts == {1, MaxItems}

\* The grouped record maps a job can be given.
GroupMaps == UNION {[1..n -> ItemCounts] : n \in 1..MaxGroups}

JobNext ==
    \/ \E groups \in GroupMaps : JobStart(groups)
    \/ \E out \in {"success", "failed", "raise"} : JobLogin(out)
    \/ \E has_program_code \in BOOLEAN, ask_wait \in AskWaits :
          JobGroupStart(has_program_code, ask_wait)
    \/ \E g \in 1..MaxGroups, d \in RunDurations, out \in StepOutcomes : RunStep(g, d, out)
    \/ \E written \in BOOLEAN : JobFinish(written)
    \/ OtherAcquire
    \/ OtherRelease

JobSpec == Init /\ [][JobNext]_vars

\* ---- claims about the job ------------------------------------------------

\* C11: within one job the groups are processed one at a time in the order
\* of the grouped record map: a WorkflowRun is running only while it is the
\* current group of the loop, and a group's run has started only when the
\* runs of all groups before it have ended (by success, failure or timeout).
C11_GroupsRunOneAtATime ==
    /\ \A g \in 1..MaxGroups :
          run_pc[g] = "running" => (job_pc = "in_group" /\ job_i = g)
    /\ \A g, h \in 1..MaxGroups :
          (g < h /\ run_pc[h] # "unstarted") => run_pc[g] = "ended"

\* Group 1 has timed out and group 2 has performed a step.
C11_Witness ==
    /\ Len(results) = 1
    /\ results[1].error = "Timed out"
    /\ run_pc[2] = "running"
    /\ run_last_step > 0

\* C12: a group that exceeds its allowance of 120 + 30 * n_items seconds
\* ends with the terminal status "timeout", distinct from "failed", in the
\* result list.
C12_TimeoutIsItsOwnStatus ==
    \A k \in 1..Len(results) :
        results[k].error = "Timed out" => results[k].status = "timeout"

\* C13: the result list holds one entry per ended group in group order, the
\* entry of the group that has just ended has the status and reason of that
\* group's own run, the two counters add up to the number of entries, a
\* finished job has an entry for every group and is completed whatever the
\* groups' outcomes, and an entry, once recorded, is never changed by a later
\* group.
C13_OneEntryPerGroup ==
    /\ [](/\ Len(results) = Cardinality({g \in 1..MaxGroups : run_pc[g] = "ended"})
          /\ \A k \in 1..Len(results) :
                /\ results[k].group = k
                /\ results[k].status \in {"success", "failed"}
                /\ results[k].status = "failed" => results[k].error # ""
          /\ (job_i > 0 /\ run_pc[job_i] = "ended") =>
                /\ Len(results) = job_i
                /\ results[job_i].status = "success" <=>
                      (/\ run_last_out # "cancelled"
                       /\ RunSteps[run_last_step] \in ManageSteps)
                /\ results[job_i].error = "Timed out" <=> run_last_out = "cancelled"
          /\ success_count + fail_count = Len(results)
          /\ success_count =
                Cardinality({k \in 1..Len(results) : results[k].status = "success"})
          /\ job_return = "summary" =>
                (Len(results) = Len(job_groups) /\ job_status = "completed"))
    /\ [][\A k \in 1..Len(results) :
             Len(results') >= k /\ results'[k] = results[k]]_vars

\* A finished job of two groups: the first timed out, the second succeeded.
C13_Witness ==
    /\ job_return = "summary"
    /\ Len(results) = 2
    /\ results[1].error = "Timed out"
    /\ results[2].status = "success"
    /\ success_count = 1
    /\ fail_count = 1

FormSteps ==
    {"navigate_to_charges_form", "select_program_and_tour", "fill_expense_rows",
     "click_add_company_expense", "fill_company_expense", "submit_form"}

Submitted ==
    \/ run_last_step > SubmitStep
    \/ (run_last_step = SubmitStep /\ run_last_out = "success")

\* C16: a group whose form was submitted is never reported failed: whatever
\* happens to the order number and the manage page afterwards, its entry
\* has the status success.
C16_SubmittedGroupIsSuccess ==
    (job_i > 0 /\ run_pc[job_i] = "ended" /\ Submitted)
        => results[job_i].status = "success"

\* C19: the acquire of a job is followed by exactly one release when its
\* workflow ends, however it ends: the reference count of the key is the
\* number of jobs running on it, and zero when none is.
C19_ReleasedWhenJobEnds ==
    _active_jobs[JobKey] =
        (IF job_pc \in {"idle", "ended"} THEN 0 ELSE 1) + other_holds

\* The job has ended by an exception and nothing holds the key.
C19_Witness ==
    /\ job_pc = "ended"
    /\ job_return = "raised"
    /\ other_holds = 0
    /\ _active_jobs[JobKey] = 0

\* The positions in RunSteps of the awaits of a step.
StepsNamed(name) == {k \in 1..Len(RunSteps) : RunSteps[k] = name}

\* C28: a first navigation that ends on the login page is followed by one
\* login and, when that succeeds, one more navigation; a failed re-login and
\* a failed second navigation end the run with a failed entry that carries
\* the navigation's message; within one group no step is awaited again
\* after a later one, so the navigation is attempted at most twice and the
\* recovery login at most once.
C28_ReloginOnceRetryOnce ==
    [][LET i == run_step
           o == run_last_out'
       IN (i # 0 /\ run_step' # i) =>
             /\ Cardinality(StepsNamed("navigate_to_charges_form")) = 2
             /\ Cardinality(StepsNamed("login")) = 1
             /\ (i = 2 /\ o = "expired") => RunSteps[run_step'] = "login"
             /\ (RunSteps[i] = "login" /\ o = "success") =>
                   RunSteps[run_step'] = "navigate_to_charges_form"
             /\ (\/ RunSteps[i] = "login" /\ o = "failed"
                 \/ i = 4 /\ o \in {"failed", "expired"}) =>
                   /\ run_step' = 0
                   /\ run_pc'[job_i] = "ended"
                   /\ results'[Len(results')] =
                         [group |-> job_i, status |-> "failed",
                          error |-> "navigate_to_charges_form"]
             /\ run_step' # 0 => run_step' > i]_vars

\* The second navigation of a group, made after the re-login, has ended on
\* the login page again, and the group has failed with the navigation's
\* message.
C28_Witness ==
    /\ run_last_step = 4
    /\ run_last_out = "expired"
    /\ run_pc[job_i] = "ended"
    /\ results[Len(results)].error = "navigate_to_charges_form"

\* C34: a job whose worker thread has ended, by a return or by an exception
\* that escaped to the bridge, has the status completed or failed.
C34_EndedJobIsTerminal ==
    job_pc = "ended" => job_status \in {"completed", "failed"}

(***************************************************************************)
(* Part 6: browser_tools.login on the BrowserManager of one session.  The  *)
(* site is the environment: an attempt ends on a page that is not the      *)
(* login page, stays on the login page, or raises.  A context that has     *)
(* been closed under the manager has lost its cookies, and every page      *)
(* operation on it raises.                                                 *)
(***************************************************************************)

Users == {"u1", "u2"}

\* browser_tools.py line 223: the default of login's max_retries (no caller
\* passes another); config.py line 68.
max_retries == 3
RETRY_DELAY_SECONDS == 5

\* What one turn of the for loop can do: reach a page other than the login
\* page (and then screenshot, which can raise inside the try), stay on the
\* login page, or raise in goto / fill / click.
AttemptOutcomes == {"success", "success_then_raise", "still_login", "exception"}

\* Lines 233-234: the session is marked logged in under another username.
BoundToOther_Never(logged, bound, username) == FALSE

BoundToOther(logged, bound, username) ==
    logged /\ bound # "" /\ bound # username

\* Lines 229-247: login reads the markers.  A session marked under the same
\* username returns "Already logged in"; one marked under another username
\* goes on to clear the cookies; else get_page (which can raise, when the
\* browser cannot be started) and the first attempt.
LoginCall(username, page_ok) ==
    /\ lg_pc = "idle"
    /\ lg_user' = username
    /\ lg_waited' = 0
    /\ IF _logged_in /\ ~BoundToOther(_logged_in, logged_in_username, username)
       THEN /\ lg_pc' = "done"
            /\ lg_result' = "success"
            /\ lg_other' = FALSE
            /\ lg_attempt' = 0
       ELSE IF ~page_ok
       THEN /\ lg_pc' = "done"
            /\ lg_result' = "raised"
            /\ lg_other' = FALSE
            /\ lg_attempt' = 0
       ELSE IF _logged_in
       THEN /\ lg_pc' = "clear"
            /\ lg_result' = ""
            /\ lg_other' = TRUE
            /\ lg_attempt' = 0
       ELSE /\ lg_pc' = "attempt"
            /\ lg_result' = ""
            /\ lg_other' = FALSE
            /\ lg_attempt' = 1
    /\ UNCHANGED <<_logged_in, logged_in_username, cookies, ctx_closed>>
    /\ UNCHANGED notLogin

\* Lines 238-247: clear_cookies (an exception is swallowed: the context is
\* closed), the markers are reset, and the first attempt begins.
LoginClear(cleared) ==
    /\ lg_pc = "clear"
    /\ cookies' = ""
    /\ ctx_closed' = (ctx_closed \/ ~cleared)
    /\ _logged_in' = FALSE
    /\ logged_in_username' = ""
    /\ lg_pc' = "attempt"
    /\ lg_attempt' = 1
    /\ UNCHANGED <<lg_user, lg_other, lg_waited, lg_result>>
    /\ UNCHANGED notLogin

\* Lines 270-274: the sleep before the next attempt.  Only the except
\* branch sleeps; an attempt that stays on the login page does not.
BackoffAfter(out, attempt) ==
    IF out \in {"exception", "success_then_raise"} /\ attempt < max_retries
    THEN RETRY_DELAY_SECONDS * (2 ^ (attempt - 1))
    ELSE 0

\* Lines 249-274: one turn of the for loop.
LoginAttempt(out) ==
    /\ lg_pc = "attempt"
    /\ ctx_closed => out = "exception"
    /\ IF out \in {"success", "success_then_raise"}
       THEN /\ _logged_in' = TRUE
            /\ logged_in_username' = lg_user
            /\ cookies' = lg_user
       ELSE UNCHANGED <<_logged_in, logged_in_username, cookies>>
    /\ IF out = "success"
       THEN /\ lg_pc' = "done"
            /\ lg_result' = "success"
            /\ UNCHANGED <<lg_attempt, lg_waited>>
       ELSE IF lg_attempt < max_retries
       THEN /\ lg_attempt' = lg_attempt + 1
            /\ lg_waited' = BackoffAfter(out, lg_attempt)
            /\ UNCHANGED <<lg_pc, lg_result>>
       ELSE /\ lg_pc' = "exhausted"
            /\ UNCHANGED <<lg_attempt, lg_waited, lg_result>>
    /\ UNCHANGED <<ctx_closed, lg_user, lg_other>>
    /\ UNCHANGED notLogin

\* Lines 276-285: after the last attempt, screenshot("login_failed") (which
\* can raise: it is outside any try) and the return of the failed result.
LoginExhausted(shot_ok) ==
    /\ lg_pc = "exhausted"
    /\ lg_pc' = "done"
    /\ lg_result' = IF shot_ok THEN "failed" ELSE "raised"
    /\ UNCHANGED <<_logged_in, logged_in_username, cookies, ctx_closed, lg_user,
                   lg_other, lg_attempt, lg_waited>>
    /\ UNCHANGED notLogin

\* The caller has the result; the manager is ready for the next call.
LoginReturn ==
    /\ lg_pc = "done"
    /\ lg_pc' = "idle"
    /\ lg_user' = ""
    /\ lg_other' = FALSE
    /\ lg_attempt' = 0
    /\ lg_waited' = 0
    /\ lg_result' = ""
    /\ UNCHANGED <<_logged_in, logged_in_username, cookies, ctx_closed>>
    /\ UNCHANGED notLogin

\* navigate_to_charges_form (browser_tools.py lines 324-327) finds itself on
\* the login page: the site has ended the session.
SessionExpired ==
    /\ lg_pc = "idle"
    /\ _logged_in
    /\ _logged_in' = FALSE
    /\ cookies' = ""
    /\ UNCHANGED <<logged_in_username, ctx_closed, lg_pc, lg_user, lg_other,
                   lg_attempt, lg_waited, lg_result>>
    /\ UNCHANGED notLogin

\* BrowserManager.close (browser_manager.py lines 212-230) and the next
\* _ensure_browser (lines 164-185): a fresh context, _logged_in False.
CloseAndRestart ==
    /\ lg_pc = "idle"
    /\ _logged_in \/ ctx_closed
    /\ _logged_in' = FALSE
    /\ cookies' = ""
    /\ ctx_closed' = FALSE
    /\ UNCHANGED <<logged_in_username, lg_pc, lg_user, lg_other,
                   lg_attempt, lg_waited, lg_result>>
    /\ UNCHANGED notLogin

LoginNext ==
    \/ \E username \in Users, page_ok \in BOOLEAN : LoginCall(username, page_ok)
    \/ \E cleared \in BOOLEAN : LoginClear(cleared)
    \/ \E out \in AttemptOutcomes : LoginAttempt(out)
    \/ \E shot_ok \in BOOLEAN : LoginExhausted(shot_ok)
    \/ LoginReturn
    \/ SessionExpired
    \/ CloseAndRestart

LoginSpec == Init /\ [][LoginNext]_vars

\* C17: login makes at most max_retries attempts, waits
\* RETRY_DELAY_SECONDS * 2^(attempt-1) between consecutive failed attempts,
\* and when every attempt has failed it returns the failed result instead
\* of raising.
C17_RetriesWithBackoff ==
    /\ lg_attempt <= max_retries
    /\ (lg_pc = "attempt" /\ lg_attempt > 1)
          => lg_waited = RETRY_DELAY_SECONDS * (2 ^ (lg_attempt - 2))
    /\ (lg_pc = "done" /\ lg_attempt = max_retries /\ lg_result # "success")
          => lg_result = "failed"

\* C18: when login finds the session marked under a different username,
\* the cookies are cleared and the markers reset before any attempt, and a
\* success result means that the session is marked logged in as the
\* supplied username and carries no other user's cookies.
C18_SuccessMeansSuppliedUser ==
    /\ (lg_other /\ lg_pc \in {"attempt", "exhausted", "done"})
          => /\ cookies \in {"", lg_user}
             /\ _logged_in => logged_in_username = lg_user
    /\ (lg_pc = "done" /\ lg_result = "success")
          => /\ _logged_in
             /\ logged_in_username = lg_user
             /\ cookies \in {"", lg_user}

\* login has returned success for a username after finding the session
\* marked under the other one.
C18_Witness ==
    /\ lg_pc = "done"
    /\ lg_result = "success"
    /\ lg_other
    /\ logged_in_username = lg_user
    /\ cookies = lg_user

(***************************************************************************)
(* Part 7: the pool operations of Part 1 step by step around _pool_lock.   *)
(* A thread enters `with _pool_lock:` when the lock is free and reads the  *)
(* maps, then writes them from what it has read, then leaves the block;    *)
(* the managers it took out of the pool are closed after that (CloseNext   *)
(* of Part 1), and get_instance is followed by get_page.                   *)
(***************************************************************************)

\* The operations with a locked block; destroy stands for destroy_instance
\* and schedule_destroy, whose blocks are the same.
PoolOps == {"get_instance", "acquire", "release", "destroy"}

\* `with _pool_lock:` lets a thread in when no thread holds the lock.
LockFree_Always(holder) == TRUE

LockFree(holder) == holder = NoKey

\* The maps as a thread reads them.
Snapshot == [instances |-> _instances, last_access |-> _last_access,
             jobs |-> _active_jobs]

\* The locked block of operation op for key sid, computed from the maps as
\* read: lines 71-96, 106-107, 113-118, 125-133 and 143-151.
LockedBlock(op, snap, sid, fresh) ==
    IF op = "get_instance" THEN
        LET r == GetInstanceLocked(snap.instances, snap.last_access, clock, sid, fresh)
        IN [instances |-> r.instances, last_access |-> r.last_access,
            jobs |-> snap.jobs, to_close |-> r.to_close, result |-> r.instances[sid]]
    ELSE IF op = "acquire" THEN
        [instances |-> snap.instances, last_access |-> snap.last_access,
         jobs |-> AcquireLocked(snap.jobs, sid), to_close |-> <<>>, result |-> 0]
    ELSE IF op = "release" THEN
        [instances |-> snap.instances, last_access |-> snap.last_access,
         jobs |-> ReleaseLocked(snap.jobs, sid), to_close |-> <<>>, result |-> 0]
    ELSE
        LET r == DestroyLocked(snap.instances, snap.last_access, snap.jobs, sid)
        IN [instances |-> r.instances, last_access |-> r.last_access,
            jobs |-> snap.jobs, to_close |-> r.to_close, result |-> 0]

\* Thread t calls operation op for key sid, enters the locked block and
\* reads the maps.
LockEnter(t, op, sid) ==
    /\ pc[t] = "idle"
    /\ LockFree(_pool_lock)
    /\ op = "acquire" => job[t] = NoKey
    /\ op = "release" => job[t] = sid
    /\ op = "get_instance" =>
          LockedBlock(op, Snapshot, sid, Fresh(sid)).result # 0
    /\ _pool_lock' = t
    /\ pc' = [pc EXCEPT ![t] = "locked"]
    /\ lk_op' = [lk_op EXCEPT ![t] = op]
    /\ arg' = [arg EXCEPT ![t] = sid]
    /\ lk_snap' = [lk_snap EXCEPT ![t] = Snapshot]
    /\ UNCHANGED <<_instances, _last_access, _active_jobs, browser, clock,
                   to_close, result, job>>
    /\ UNCHANGED notLock

\* Thread t writes the maps from what it has read.
LockWrite(t) ==
    /\ pc[t] = "locked"
    /\ LET r == LockedBlock(lk_op[t], lk_snap[t], arg[t], Fresh(arg[t]))
       IN /\ _instances' = r.instances
          /\ _last_access' = r.last_access
          /\ _active_jobs' = r.jobs
          /\ to_close' = [to_close EXCEPT ![t] = r.to_close]
          /\ result' = [result EXCEPT ![t] = r.result]
    /\ job' = [job EXCEPT ![t] = IF lk_op[t] = "acquire" THEN arg[t]
                                 ELSE IF lk_op[t] = "release" THEN NoKey
                                 ELSE @]
    /\ pc' = [pc EXCEPT ![t] = "unlock"]
    /\ UNCHANGED <<browser, clock, arg, _pool_lock, lk_op, lk_snap>>
    /\ UNCHANGED notLock

\* Thread t leaves the locked block: the lock is free again, and t goes on
\* to close what it took out of the pool, to get_page, or returns.
LockLeave(t) ==
    /\ pc[t] = "unlock"
    /\ _pool_lock' = NoKey
    /\ lk_op' = [lk_op EXCEPT ![t] = ""]
    /\ lk_snap' = [lk_snap EXCEPT ![t] = NoSnap]
    /\ pc' = [pc EXCEPT ![t] = IF Len(to_close[t]) > 0 THEN "closing"
                               ELSE IF result[t] # 0 THEN "page" ELSE "idle"]
    /\ arg' = [arg EXCEPT ![t] = IF Len(to_close[t]) > 0 \/ result[t] # 0
                                 THEN @ ELSE NoKey]
    /\ UNCHANGED <<_instances, _last_access, _active_jobs, browser, clock,
                   to_close, result, job>>
    /\ UNCHANGED notLock

LockNext ==
    \/ \E t \in Threads, op \in PoolOps, k \in Keys : LockEnter(t, op, k)
    \/ \E t \in Threads : LockWrite(t)
    \/ \E t \in Threads : LockLeave(t)
    \/ \E t \in Threads : CloseNext(t)
    \/ \E t \in Threads : get_page(t)

LockSpec == Init /\ [][LockNext]_vars

\* C20: every read-modify-write of _instances, _last_access and
\* _active_jobs is made by the thread that holds _pool_lock, from the maps
\* as they are (no other thread has written since it read them), and the
\* lock is never held while a browser is being closed: a thread closes
\* managers only after it has left the locked block.
C20_MapsUnderLockClosesOutside ==
    /\ [](\A t \in Threads :
             /\ pc[t] \in {"locked", "unlock"} => _pool_lock = t
             /\ pc[t] = "locked" => lk_snap[t] = Snapshot
             /\ pc[t] = "closing" => _pool_lock # t)
    /\ [][(<<_instances, _last_access, _active_jobs>>' #
              <<_instances, _last_access, _active_jobs>>)
          => \E t \in Threads : _pool_lock = t /\ pc[t] = "locked"]_vars
    /\ [][browser' # browser
          => \E t \in Threads :
                pc[t] \in {"closing", "page"} /\ _pool_lock # t /\ _pool_lock' # t]_vars

\* A thread is closing a manager it evicted while the other thread is
\* inside the locked block.
C20_Witness ==
    \E t, u \in Threads :
        /\ pc[t] = "closing"
        /\ Len(to_close[t]) > 0
        /\ pc[u] = "locked"
        /\ _pool_lock = u

(***************************************************************************)
(* Part 8: the job registry (_jobs) and the pending-question table         *)
(* (_input_requests) under the two threads of a running job.  The worker   *)
(* OS thread asks questions (_ask_user) and makes the job's last update    *)
(* (_update_job at line 851 or at line 925, then the results at line 926); *)
(* the transport's thread serves api_job_status, has_pending_input and     *)
(* submit_user_input.  Every statement that touches a table is one step.   *)
(***************************************************************************)

\* The blocks "with _input_lock" and the thread that runs each.
RegBlocks ==
    [ask_store |-> Worker, ask_pop |-> Worker,
     submit |-> Transport, has_pending |-> Transport]

\* What an access to a table is recorded as: the thread, the table and
\* whether the thread holds a lock while it makes the access.
Access(t, table) == [thread |-> t, table |-> table, locked |-> _input_lock = t]

\* "with _input_lock:" (lines 56, 67, 78, 88): the thread acquires the lock.
\* The worker enters ask_store from _process_tour_group and ask_pop after
\* its wait.
RegEnter(t, op) ==
    /\ RegBlocks[op] = t
    /\ _input_lock = NoKey
    /\ IF op = "ask_pop" THEN rg_pc[t] = "woken" ELSE rg_pc[t] = "idle"
    /\ op = "ask_store" => rg_asks < MaxAsks
    /\ op \in {"submit", "has_pending"} => rg_served < MaxRequests
    /\ _input_lock' = t
    /\ rg_pc' = [rg_pc EXCEPT ![t] = "locked"]
    /\ rg_op' = [rg_op EXCEPT ![t] = op]
    /\ rg_asks' = IF op = "ask_store" THEN rg_asks + 1 ELSE rg_asks
    /\ UNCHANGED <<rg_job, rg_requests, rg_event, rg_served, rg_seen, rg_access>>
    /\ UNCHANGED notReg

\* The body of the block: line 79 (the request is stored with a new Event),
\* line 89 (the request is popped), lines 57-61 (the response is stored and
\* the Event set, if a request is there), line 68 (the table is read).
RegBody(t) ==
    /\ rg_pc[t] = "locked"
    /\ rg_access' = rg_access \cup {Access(t, "_input_requests")}
    /\ rg_pc' = [rg_pc EXCEPT ![t] = "leaving"]
    /\ CASE rg_op[t] = "ask_store" ->
              rg_requests' = "open" /\ rg_event' = FALSE
         [] rg_op[t] = "ask_pop" ->
              rg_requests' = "" /\ UNCHANGED rg_event
         [] rg_op[t] = "submit" ->
              IF rg_requests # ""
              THEN rg_requests' = "answered" /\ rg_event' = TRUE
              ELSE UNCHANGED <<rg_requests, rg_event>>
         [] OTHER -> UNCHANGED <<rg_requests, rg_event>>
    /\ UNCHANGED <<_input_lock, rg_op, rg_job, rg_asks, rg_served, rg_seen>>
    /\ UNCHANGED notReg

\* The end of the block releases the lock.  After ask_store the worker
\* emits the question and waits on the Event (lines 81-86).
RegLeave(t) ==
    /\ rg_pc[t] = "leaving"
    /\ _input_lock' = NoKey
    /\ rg_pc' = [rg_pc EXCEPT ![t] = IF rg_op[t] = "ask_store" THEN "wait" ELSE "idle"]
    /\ rg_op' = [rg_op EXCEPT ![t] = ""]
    /\ rg_served' = IF t = Transport THEN rg_served + 1 ELSE rg_served
    /\ UNCHANGED <<rg_job, rg_requests, rg_event, rg_asks, rg_seen, rg_access>>
    /\ UNCHANGED notReg

\* Line 86: evt.wait returns, the Event set or the timeout elapsed.
RegWake ==
    /\ rg_pc[Worker] = "wait"
    /\ rg_pc' = [rg_pc EXCEPT ![Worker] = "woken"]
    /\ UNCHANGED <<_input_lock, rg_op, rg_job, rg_requests, rg_event, rg_asks,
                   rg_served, rg_seen, rg_access>>
    /\ UNCHANGED notReg

\* _update_job, lines 1579-1580, called at line 851 (status failed) or at
\* line 925 (status completed): the status is written.
UpdateStatus(status) ==
    /\ rg_pc[Worker] = "idle"
    /\ rg_job' = [rg_job EXCEPT !.status = status]
    /\ rg_access' = rg_access \cup {Access(Worker, "_jobs")}
    /\ rg_pc' = [rg_pc EXCEPT ![Worker] = "upd_append"]
    /\ UNCHANGED <<_input_lock, rg_op, rg_requests, rg_event, rg_asks, rg_served, rg_seen>>
    /\ UNCHANGED notReg

\* _update_job, lines 1581-1585: the step is appended to the step log.
UpdateAppend ==
    /\ rg_pc[Worker] = "upd_append"
    /\ rg_job' = [rg_job EXCEPT !.steps = Append(@, rg_job.status)]
    /\ rg_access' = rg_access \cup {Access(Worker, "_jobs")}
    /\ rg_pc' = [rg_pc EXCEPT ![Worker] =
                    IF rg_job.status = "completed" THEN "upd_results" ELSE "done"]
    /\ UNCHANGED <<_input_lock, rg_op, rg_requests, rg_event, rg_asks, rg_served, rg_seen>>
    /\ UNCHANGED notReg

\* Line 926: the result list of a completed job is stored.
UpdateResults ==
    /\ rg_pc[Worker] = "upd_results"
    /\ rg_job' = [rg_job EXCEPT !.results = TRUE]
    /\ rg_access' = rg_access \cup {Access(Worker, "_jobs")}
    /\ rg_pc' = [rg_pc EXCEPT ![Worker] = "done"]
    /\ UNCHANGED <<_input_lock, rg_op, rg_requests, rg_event, rg_asks, rg_served, rg_seen>>
    /\ UNCHANGED notReg

\* api_job_status (routes.py lines 463-470) and get_job (lines 126-128): the
\* job is read and returned.
get_job ==
    /\ rg_pc[Transport] = "idle"
    /\ rg_served < MaxRequests
    /\ rg_seen' = rg_job
    /\ rg_access' = rg_access \cup {Access(Transport, "_jobs")}
    /\ rg_served' = rg_served + 1
    /\ UNCHANGED <<_input_lock, rg_pc, rg_op, rg_job, rg_requests, rg_event, rg_asks>>
    /\ UNCHANGED notReg

RegNext ==
    \/ \E t \in RegThreads, op \in DOMAIN RegBlocks : RegEnter(t, op)
    \/ \E t \in RegThreads : RegBody(t)
    \/ \E t \in RegThreads : RegLeave(t)
    \/ RegWake
    \/ \E status \in {"failed", "completed"} : UpdateStatus(status)
    \/ UpdateAppend
    \/ UpdateResults
    \/ get_job

RegSpec == Init /\ [][RegNext]_vars

\* ---- claims about the registry and the question table --------------------

\* A job as _update_job and line 926 leave it: the last entry of the step
\* log is the entry of the status, and a completed job has its results.
WholeJob(j) ==
    /\ j.steps # <<>>
    /\ j.steps[Len(j.steps)] = j.status
    /\ j.status = "completed" => j.results

\* C21: every access to _jobs and to _input_requests is made by a thread that
\* holds a lock, so that the transport's thread never returns a job the
\* worker is in the middle of updating, and no thread holds a lock while it
\* waits for an answer.
C21_TablesUnderTheirLocks ==
    /\ \A a \in rg_access : a.locked
    /\ WholeJob(rg_seen)
    /\ \A t \in RegThreads : rg_pc[t] \in {"wait", "woken"} => _input_lock # t

\* C35: a job that get_job returns to the transport's thread with the status
\* completed carries the result list of its groups.
C35_CompletedJobHasResults ==
    rg_seen.status = "completed" => rg_seen.results

(***************************************************************************)
(* Part 9: review before submit.  review_expense_invoice parses and groups *)
(* an invoice and stores the pending review of the session;                *)
(* confirm_and_execute_expense pops it and starts the automation, through  *)
(* n8n or directly; api_callback is n8n reporting the results of a job it  *)
(* was sent.  A grouping is the sequence of the entries [key, items] of    *)
(* the OrderedDict, items being the line items of the group.               *)
(***************************************************************************)

\* The order codes of the invoices and the codes a user can type as a
\* correction ("" leaves the code as it is).
Codes == {"K1", "K2"}
NewCodes == {"", "K2", "N"}

\* The groupings _group_records_by_tour hands to the review: one group of
\* two line items, or two groups of one line item.
Groupings ==
    {<<[key |-> "K1", items |-> <<1, 2>>]>>,
     <<[key |-> "K1", items |-> <<1>>], [key |-> "K2", items |-> <<2>>]>>}

\* code_group_overrides as the client sends it: original key -> new code.
Overrides == [Codes -> NewCodes]

\* d[k] = v on an insertion-ordered dict.
DictPut(d, k, v) ==
    IF \E i \in 1..Len(d) : d[i].key = k
    THEN [i \in 1..Len(d) |-> IF d[i].key = k THEN [key |-> k, items |-> v] ELSE d[i]]
    ELSE Append(d, [key |-> k, items |-> v])

\* _apply_code_group_overrides, lines 423-437.
RECURSIVE ApplyFrom(_, _, _, _)
ApplyFrom(grouped, overrides, i, new_grouped) ==
    IF i > Len(grouped) THEN new_grouped
    ELSE LET key == grouped[i].key
             new_code == IF key \in DOMAIN overrides THEN overrides[key] ELSE ""
         IN ApplyFrom(grouped, overrides, i + 1,
                      IF new_code # "" /\ new_code # key
                      THEN DictPut(new_grouped, new_code, grouped[i].items)
                      ELSE DictPut(new_grouped, key, grouped[i].items))

_apply_code_group_overrides(grouped, overrides) == ApplyFrom(grouped, overrides, 1, <<>>)

\* _update_job, lines 1578-1585, on the registry of this part.
UpdatedStatus(j, status) == [rv_status EXCEPT ![j] = status]
UpdatedSteps(j, statuses) == [rv_steps EXCEPT ![j] = @ \o statuses]

\* review_expense_invoice, lines 147-287: the job is created; a file that
\* does not parse ends it failed; else the records are grouped, the pending
\* review of the session is stored (replacing an earlier one) and the job
\* awaits confirmation.
Review(sid, parsed, grouped) ==
    /\ rv_n < MaxReviews
    /\ LET j == rv_n + 1
       IN /\ rv_n' = j
          /\ rv_session' = [rv_session EXCEPT ![j] = sid]
          /\ IF parsed
             THEN /\ rv_status' = UpdatedStatus(j, "awaiting_confirmation")
                  /\ rv_steps' = UpdatedSteps(j, <<"parsing", "analyzing",
                                                  "awaiting_confirmation">>)
                  /\ rv_grouped' = [rv_grouped EXCEPT ![j] = grouped]
                  /\ _pending_reviews' = [_pending_reviews EXCEPT ![sid] =
                                             [job_id |-> j, grouped |-> grouped]]
             ELSE /\ rv_status' = UpdatedStatus(j, "failed")
                  /\ rv_steps' = UpdatedSteps(j, <<"parsing", "failed">>)
                  /\ UNCHANGED <<rv_grouped, _pending_reviews>>
    /\ UNCHANGED <<rv_exec, rv_arg, rv_sent, rv_callbacks, rv_ret>>
    /\ UNCHANGED notReview

\* The table with the review of a session left in place.
pop_pending_Kept(sid) == _pending_reviews

\* Lines 318-319: _pending_reviews.pop(session_id, None) under _review_lock.
pop_pending(sid) == [_pending_reviews EXCEPT ![sid] = NoReview]

\* The corrections a confirm call can carry: whatever the client sends has
\* no effect when nothing is pending, so one value stands for all then.
ConfirmInputs(sid) ==
    IF _pending_reviews[sid] = NoReview THEN {[c \in Codes |-> ""]} ELSE Overrides

\* confirm_and_execute_expense, lines 318-402, with _run_via_n8n (lines
\* 672-702) and _run_direct up to the start of the worker thread (lines
\* 742-790).  n8n: is_n8n_enabled(); triggered: trigger_expense_workflow
\* returned "triggered"; posted: n8n received the records (it can have
\* received them when the trigger reports an error, e.g. a read timeout).
Confirm(sid, overrides, n8n, triggered, posted) ==
    /\ overrides \in ConfirmInputs(sid)
    /\ triggered => (n8n /\ posted)
    /\ posted => n8n
    /\ LET pending == _pending_reviews[sid]
           j == pending.job_id
           grouped == _apply_code_group_overrides(pending.grouped, overrides)
       IN IF pending = NoReview
          THEN /\ rv_ret' = "no_pending"
               /\ UNCHANGED <<_pending_reviews, rv_status, rv_steps, rv_exec, rv_arg,
                              rv_sent>>
          ELSE /\ rv_ret' = "started"
               /\ _pending_reviews' = pop_pending(sid)
               /\ rv_sent' = [rv_sent EXCEPT ![j] = posted]
               /\ IF n8n /\ triggered
                  THEN /\ rv_status' = UpdatedStatus(j, "n8n_processing")
                       /\ rv_steps' = UpdatedSteps(j, <<"confirmed", "n8n_triggered",
                                                       "n8n_processing">>)
                       /\ rv_exec' = [rv_exec EXCEPT ![j] = "n8n"]
                       /\ rv_arg' = [rv_arg EXCEPT ![j] =
                                        [kind |-> "n8n", grouped |-> <<>>]]
                  ELSE /\ rv_status' = UpdatedStatus(j, "step4_login")
                       /\ rv_steps' = UpdatedSteps(j,
                             IF n8n THEN <<"confirmed", "n8n_triggered", "step4_login">>
                             ELSE <<"confirmed", "step4_login">>)
                       /\ rv_exec' = [rv_exec EXCEPT ![j] = "login"]
                       /\ rv_arg' = [rv_arg EXCEPT ![j] =
                                        IF n8n
                                        THEN [kind |-> "records", grouped |-> <<>>]
                                        ELSE [kind |-> "grouped", grouped |-> grouped]]
    /\ UNCHANGED <<rv_n, rv_session, rv_grouped, rv_callbacks>>
    /\ UNCHANGED notReview

\* _run_direct_async_inner, lines 845-856: the login of the worker.  A
\* failed login ends the job failed; a login that raises ends the run.
DirectLogin(j, out) ==
    /\ rv_exec[j] = "login"
    /\ IF out = "success"
       THEN /\ rv_exec' = [rv_exec EXCEPT ![j] = "groups"]
            /\ UNCHANGED <<rv_status, rv_steps>>
       ELSE /\ rv_exec' = [rv_exec EXCEPT ![j] = "ended"]
            /\ IF out = "failed"
               THEN /\ rv_status' = UpdatedStatus(j, "failed")
                    /\ rv_steps' = UpdatedSteps(j, <<"failed">>)
               ELSE UNCHANGED <<rv_status, rv_steps>>
    /\ UNCHANGED <<_pending_reviews, rv_n, rv_session, rv_grouped, rv_arg, rv_sent,
                   rv_callbacks, rv_ret>>
    /\ UNCHANGED notReview

\* Lines 865-926: the groups are processed and the job is completed.  Given
\* the record list in place of the grouping (line 702), line 865 raises.
DirectGroups(j) ==
    /\ rv_exec[j] = "groups"
    /\ rv_exec' = [rv_exec EXCEPT ![j] = "ended"]
    /\ IF rv_arg[j].kind = "grouped"
       THEN /\ rv_status' = UpdatedStatus(j, "completed")
            /\ rv_steps' = UpdatedSteps(j, <<"completed">>)
       ELSE UNCHANGED <<rv_status, rv_steps>>
    /\ UNCHANGED <<_pending_reviews, rv_n, rv_session, rv_grouped, rv_arg, rv_sent,
                   rv_callbacks, rv_ret>>
    /\ UNCHANGED notReview

\* api_callback, routes.py lines 410-436: n8n reports the results of a job
\* it was sent.
api_callback(j) ==
    /\ rv_sent[j]
    /\ rv_callbacks < MaxCallbacks
    /\ rv_callbacks' = rv_callbacks + 1
    /\ rv_status' = [rv_status EXCEPT ![j] = "completed"]
    /\ rv_exec' = [rv_exec EXCEPT ![j] = IF @ = "n8n" THEN "ended" ELSE @]
    /\ UNCHANGED <<_pending_reviews, rv_n, rv_steps, rv_session, rv_grouped, rv_arg,
                   rv_sent, rv_ret>>
    /\ UNCHANGED notReview

ReviewNext ==
    \/ \E sid \in Keys, parsed \in BOOLEAN, grouped \in Groupings :
          Review(sid, parsed, grouped)
    \/ \E sid \in Keys, overrides \in Overrides, n8n, triggered, posted \in BOOLEAN :
          Confirm(sid, overrides, n8n, triggered, posted)
    \/ \E j \in 1..MaxReviews, out \in {"success", "failed", "raise"} : DirectLogin(j, out)
    \/ \E j \in 1..MaxReviews : DirectGroups(j)
    \/ \E j \in 1..MaxReviews : api_callback(j)

ReviewSpec == Init /\ [][ReviewNext]_vars

\* ---- claims about review and confirm -------------------------------------

\* The groups of a grouping as sets of line items, whatever their keys.
GroupItems(grouped) == {grouped[i].items : i \in 1..Len(grouped)}

\* C22: the automation of a reviewed job starts only in a confirm call for the
\* session of the review while that review is pending there (so not before
\* the confirm, and not in a confirm that finds nothing pending), and a
\* direct run is started with the grouping computed at review time: the same
\* groups of line items, under their codes as corrected by the user.
C22_ConfirmRunsReviewedGrouping ==
    /\ [](\A j \in 1..MaxReviews :
             rv_arg[j].kind \notin {"", "n8n"} =>
                /\ rv_arg[j].kind = "grouped"
                /\ GroupItems(rv_arg[j].grouped) = GroupItems(rv_grouped[j]))
    /\ [][\A j \in 1..MaxReviews :
             (rv_exec[j] = "" /\ rv_exec'[j] # "") =>
                /\ _pending_reviews[rv_session[j]].job_id = j
                /\ _pending_reviews'[rv_session[j]] = NoReview
                /\ rv_ret' = "started"]_vars

\* The values of a job's status after which the job is over.
Terminal == {"completed", "failed"}

IsPrefix(a, b) == Len(a) <= Len(b) /\ \A i \in 1..Len(a) : b[i] = a[i]

\* C23: no step changes the status of a job that is completed or failed, and
\* every step leaves the entries of a job's step log as they are, adding new
\* ones at the end only.
C23_TerminalStatusSetOnce ==
    [][\A j \in 1..MaxReviews :
          /\ rv_status[j] \in Terminal => rv_status'[j] = rv_status[j]
          /\ IsPrefix(rv_steps[j], rv_steps'[j])]_vars

\* The number of entries of a step log with the given status.
StepCount(steps, status) == Cardinality({i \in 1..Len(steps) : steps[i] = status})

\* C36: the automation of one pending review is started at most once: the
\* step log of a job gets the entry confirmed once at most, it gets it in a
\* confirm call that finds the review of that job pending and takes it out
\* of the table, so that a call that finds no review pending starts nothing.
C36_AutomationStartedOnce ==
    /\ [](\A j \in 1..MaxReviews : StepCount(rv_steps[j], "confirmed") <= 1)
    /\ [][\A j \in 1..MaxReviews :
             StepCount(rv_steps'[j], "confirmed") > StepCount(rv_steps[j], "confirmed") =>
                /\ _pending_reviews[rv_session[j]].job_id = j
                /\ \A sid \in Keys : _pending_reviews'[sid].job_id # j
                /\ rv_ret' = "started"]_vars

\* A review was confirmed, its automation started, and a later confirmation
\* for the same session found nothing pending.
C36_Witness ==
    /\ rv_ret = "no_pending"
    /\ \E j \in 1..MaxReviews :
          /\ rv_exec[j] # ""
          /\ _pending_reviews[rv_session[j]] = NoReview
          /\ StepCount(rv_steps[j], "confirmed") = 1

\* The line items of a grouping, and how many entries its groups hold.
LineItems(grouped) ==
    UNION {{grouped[i].items[k] : k \in 1..Len(grouped[i].items)} : i \in 1..Len(grouped)}

RECURSIVE ItemCount(_)
ItemCount(grouped) ==
    IF grouped = <<>> THEN 0 ELSE Len(Head(grouped).items) + ItemCount(Tail(grouped))

\* C37: the grouping a direct run is started with, which is what
\* _apply_code_group_overrides returned for the grouping of the review and the
\* corrections of the user, holds every line item of the review once: none is
\* lost and none is there twice.
C37_OverridesKeepLineItems ==
    \A j \in 1..MaxReviews :
        rv_arg[j].kind = "grouped" =>
            /\ LineItems(rv_arg[j].grouped) = LineItems(rv_grouped[j])
            /\ ItemCount(rv_arg[j].grouped) = ItemCount(rv_grouped[j])

(***************************************************************************)
(* Part 10: _group_records_by_tour.  A tour code is the sequence of its    *)
(* characters, so that the normalisation and the keys of split mode are    *)
(* computed from the characters as the code computes them.  A dict is the  *)
(* sequence of its entries [key, items] in insertion order.                *)
(***************************************************************************)

UpperCase ==
    <<"A", "B", "C", "D", "E", "F", "G", "H", "I", "J", "K", "L", "M",
      "N", "O", "P", "Q", "R", "S", "T", "U", "V", "W", "X", "Y", "Z">>
LowerCase ==
    <<"a", "b", "c", "d", "e", "f", "g", "h", "i", "j", "k", "l", "m",
      "n", "o", "p", "q", "r", "s", "t", "u", "v", "w", "x", "y", "z">>
DigitChars == <<"0", "1", "2", "3", "4", "5", "6", "7", "8", "9">>

Letters == {UpperCase[i] : i \in 1..Len(UpperCase)}
Digits == {DigitChars[i] : i \in 1..Len(DigitChars)}

\* str.upper() on one character.
UpperChar(ch) ==
    IF \E i \in 1..Len(LowerCase) : LowerCase[i] = ch
    THEN UpperCase[CHOOSE i \in 1..Len(LowerCase) : LowerCase[i] = ch]
    ELSE ch

upper(tc) == [i \in 1..Len(tc) |-> UpperChar(tc[i])]

\* str.strip(): leading and trailing blanks removed.
RECURSIVE strip(_)
strip(tc) ==
    IF tc = <<>> THEN tc
    ELSE IF tc[1] = " " THEN strip(Tail(tc))
    ELSE IF tc[Len(tc)] = " " THEN strip(SubSeq(tc, 1, Len(tc) - 1))
    ELSE tc

\* str.rstrip("ABC...Z"): the trailing run of capital letters removed.
RECURSIVE rstrip_letters(_)
rstrip_letters(tc) ==
    IF tc # <<>> /\ tc[Len(tc)] \in Letters
    THEN rstrip_letters(SubSeq(tc, 1, Len(tc) - 1))
    ELSE tc

\* str(i) for a natural number.
RECURSIVE str(_)
str(i) ==
    IF i < 10 THEN <<DigitChars[i + 1]>>
    ELSE str(i \div 10) \o <<DigitChars[(i % 10) + 1]>>

\* _normalize_tour_code, lines 1642-1648.
_normalize_tour_code(tc_raw) ==
    LET tc == upper(strip(tc_raw))
        base == rstrip_letters(tc)
    IN  IF tc # <<>> /\ tc[Len(tc)] \in Letters /\ Len(tc) > 6
           /\ Len(base) >= 6 /\ base[Len(base)] \in Digits
        THEN base
        ELSE tc

\* key in d, d[key] and d.get(key, default) on a dict.
DictHas(d, k) == \E i \in 1..Len(d) : d[i].key = k
DictGet(d, k, default) ==
    IF DictHas(d, k) THEN d[CHOOSE i \in 1..Len(d) : d[i].key = k].items ELSE default

\* Lines 1626-1634, split mode: every record goes under the key
\* f"{tc}__item{i}", i counting from 0.
RECURSIVE SplitFrom(_, _, _)
SplitFrom(records, i, grouped) ==
    IF i > Len(records) THEN grouped
    ELSE LET tc == records[i].tour_code
             unique_key == tc \o <<"_", "_", "i", "t", "e", "m">> \o str(i - 1)
         IN SplitFrom(records, i + 1, DictPut(grouped, unique_key, <<i>>))

\* Lines 1650-1663, pass 1 of combine mode: the records are grouped under
\* the raw code of the first record of their normalised code.
RECURSIVE CombineFrom(_, _, _, _)
CombineFrom(records, i, norm_to_canonical, grouped) ==
    IF i > Len(records) THEN grouped
    ELSE LET tc_raw == records[i].tour_code
             tc_norm == _normalize_tour_code(tc_raw)
             canonical == DictGet(norm_to_canonical, tc_norm, tc_raw)
         IN CombineFrom(records, i + 1,
                        IF DictHas(norm_to_canonical, tc_norm) THEN norm_to_canonical
                        ELSE DictPut(norm_to_canonical, tc_norm, tc_raw),
                        DictPut(grouped, canonical,
                                DictGet(grouped, canonical, <<>>) \o <<i>>))

\* The pairs (canonical, program code) in the order the loops of lines
\* 1669-1670 visit them; the program code is stripped and upper-cased.
RECURSIVE GroupPairs(_, _, _)
GroupPairs(records, grouped, g) ==
    IF g > Len(grouped) THEN <<>>
    ELSE [k \in 1..Len(grouped[g].items) |->
             [canonical |-> grouped[g].key,
              pc |-> upper(strip(records[grouped[g].items[k]].program_code))]]
         \o GroupPairs(records, grouped, g + 1)

\* Lines 1666-1676, pass 2: merge_map.
RECURSIVE MergeMapFrom(_, _, _, _)
MergeMapFrom(pairs, k, pc_to_group, merge_map) ==
    IF k > Len(pairs) THEN merge_map
    ELSE LET canonical == pairs[k].canonical
             pcode == pairs[k].pc
         IN IF pcode = <<>> THEN MergeMapFrom(pairs, k + 1, pc_to_group, merge_map)
            ELSE IF DictHas(pc_to_group, pcode) /\ DictGet(pc_to_group, pcode, <<>>) # canonical
            THEN MergeMapFrom(pairs, k + 1, pc_to_group,
                              DictPut(merge_map, canonical, DictGet(pc_to_group, pcode, <<>>)))
            ELSE MergeMapFrom(pairs, k + 1, DictPut(pc_to_group, pcode, canonical), merge_map)

\* Lines 1678-1683: the groups are moved under their targets.
RECURSIVE MergedFrom(_, _, _, _)
MergedFrom(grouped, merge_map, g, merged) ==
    IF g > Len(grouped) THEN merged
    ELSE LET target == DictGet(merge_map, grouped[g].key, grouped[g].key)
         IN MergedFrom(grouped, merge_map, g + 1,
                       DictPut(merged, target,
                               DictGet(merged, target, <<>>) \o grouped[g].items))

split_types == {"flight", "insurance", "misc"}

\* _group_records_by_tour, lines 1607-1694.
_group_records_by_tour(records, expense_type) ==
    IF expense_type \in split_types THEN SplitFrom(records, 1, <<>>)
    ELSE LET grouped == CombineFrom(records, 1, <<>>, <<>>)
             merge_map == MergeMapFrom(GroupPairs(records, grouped, 1), 1, <<>>, <<>>)
         IN IF merge_map # <<>> THEN MergedFrom(grouped, merge_map, 1, <<>>)
            ELSE grouped

\* The order codes and program codes of the records: a code, the code with a
\* letter suffix (in capitals and in small letters), a short code and the
\* short code with a letter suffix; no program code or one of two.
TourCodes ==
    {<<"A", "B", "C", "1", "2", "3">>,
     <<"A", "B", "C", "1", "2", "3", "B">>,
     <<"a", "b", "c", "1", "2", "3", "c">>,
     <<"A", "B", "1">>,
     <<"A", "B", "1", "B">>}
ProgramCodes == {<<>>, <<"P", "1">>, <<"P", "2">>}
ExpenseTypes == {"", "land_tour", "flight", "insurance", "misc"}

RecordLists ==
    UNION {[1..n -> [tour_code : TourCodes, program_code : ProgramCodes]] :
              n \in 1..MaxRecords}

\* One call, from review_expense_invoice (line 199) or start_expense_job
\* (line 513).
GroupCall(records, expense_type) ==
    /\ gp_pc = "idle"
    /\ gp_records' = records
    /\ gp_type' = expense_type
    /\ gp_grouped' = _group_records_by_tour(records, expense_type)
    /\ gp_pc' = "returned"
    /\ UNCHANGED notGrouping

\* The record lists of a call that can be made: none once the function has
\* returned.
CallInputs == IF gp_pc = "idle" THEN RecordLists ELSE {}

GroupingNext ==
    \E records \in CallInputs, expense_type \in ExpenseTypes :
        GroupCall(records, expense_type)

GroupingSpec == Init /\ [][GroupingNext]_vars

\* ---- claims about the grouping -------------------------------------------

\* The normalised order code and the program code of record i.
NormOf(records, i) == _normalize_tour_code(records[i].tour_code)
ProgramOf(records, i) == upper(strip(records[i].program_code))

\* Two normalised order codes share a program code.
SharePrograms(records, n, m) ==
    \E i, j \in 1..Len(records) :
        /\ NormOf(records, i) = n
        /\ NormOf(records, j) = m
        /\ ProgramOf(records, i) # <<>>
        /\ ProgramOf(records, i) = ProgramOf(records, j)

\* The normalised order codes that are merged with those of S.
RECURSIVE MergedWith(_, _)
MergedWith(records, S) ==
    LET T == S \cup {NormOf(records, i) : i \in
                        {i \in 1..Len(records) :
                            \E n \in S : SharePrograms(records, n, NormOf(records, i))}}
    IN IF T = S THEN S ELSE MergedWith(records, T)

\* The distinct normalised order codes after merging those that share a
\* program code: the sets of codes that end up together.
MergedCodes(records) ==
    {MergedWith(records, {NormOf(records, i)}) : i \in 1..Len(records)}

\* The groups that hold record i.
GroupsOf(grouped, i) ==
    {g \in 1..Len(grouped) : \E k \in 1..Len(grouped[g].items) : grouped[g].items[k] = i}

\* Code d is code c followed by letters.
SuffixOnly(c, d) ==
    /\ Len(d) > Len(c)
    /\ SubSeq(d, 1, Len(c)) = c
    /\ \A k \in (Len(c) + 1)..Len(d) : UpperChar(d[k]) \in Letters

\* C24: _group_records_by_tour puts every record in exactly one group; in
\* split mode there is one group per record; in combine mode there is one
\* group per distinct normalised order code after merging the codes that
\* share a program code, and two records whose order codes differ only by a
\* trailing letter suffix are in the same group.
C24_GroupsPerCodeOrRecord ==
    gp_pc = "returned" =>
        /\ \A i \in 1..Len(gp_records) : Cardinality(GroupsOf(gp_grouped, i)) = 1
        /\ gp_type \in split_types =>
              /\ Len(gp_grouped) = Len(gp_records)
              /\ \A g \in 1..Len(gp_grouped) : Len(gp_grouped[g].items) = 1
        /\ gp_type \notin split_types =>
              /\ Len(gp_grouped) = Cardinality(MergedCodes(gp_records))
              /\ \A i, j \in 1..Len(gp_records) :
                    SuffixOnly(gp_records[i].tour_code, gp_records[j].tour_code)
                       => GroupsOf(gp_grouped, i) = GroupsOf(gp_grouped, j)

\* C38: in combine mode every record is in exactly one returned group, and
\* the key of every returned group, the order code its submission is made
\* under, is the order code of one of the records of that group.
C38_GroupKeyIsMemberCode ==
    (gp_pc = "returned" /\ gp_type \notin split_types) =>
        /\ \A i \in 1..Len(gp_records) : Cardinality(GroupsOf(gp_grouped, i)) = 1
        /\ \A g \in 1..Len(gp_grouped) :
              \E k \in 1..Len(gp_grouped[g].items) :
                  gp_records[gp_grouped[g].items[k]].tour_code = gp_grouped[g].key

(***************************************************************************)
(* Part 11: the totals of a job's groups.  _process_tour_group sums the    *)
(* amounts of its line items (line 1072) and passes the items' amounts to  *)
(* fill_expense_rows, which sums them again (browser_tools.py line 596)    *)
(* and writes str(total_amount) into the price field; the result of a      *)
(* submitted group carries total_amount.                                   *)
(***************************************************************************)

\* A total that counts a deduction as a charge.
RECURSIVE sum_Unsigned(_)
sum_Unsigned(amounts) ==
    IF amounts = <<>> THEN 0
    ELSE sum_Unsigned(Tail(amounts)) + (IF amounts[1] < 0 THEN 0 - amounts[1] ELSE amounts[1])

\* sum(...) of Python: from 0, left to right.
RECURSIVE sum(_)
sum(amounts) ==
    IF amounts = <<>> THEN 0
    ELSE sum(SubSeq(amounts, 1, Len(amounts) - 1)) + amounts[Len(amounts)]

\* str(n) for an integer: a minus sign before the digits of a negative one.
str_int(n) == IF n < 0 THEN <<"-">> \o str(0 - n) ELSE str(n)

\* Lines 1120-1160: one row per line item, with the item's amount.
rows_for_form(line_items) ==
    [k \in 1..Len(line_items) |-> [amount |-> line_items[k].amount]]

\* fill_expense_rows, lines 596 and 647-651: the value of the price field,
\* written when the field is on the page.
fill_expense_rows(rows, price_found) ==
    LET total_amount == sum([k \in 1..Len(rows) |-> rows[k].amount])
    IN IF price_found THEN str_int(total_amount) ELSE "unset"

\* What can happen to a group: the navigation fails (the run returns before
\* the form is filled), the price field is not on the page (a warning, the
\* run goes on), the submission fails after the form was filled, or the
\* group is submitted.
GroupOutcomes == {"nav_failed", "no_price", "submit_failed", "success"}

\* The entry _process_tour_group returns: lines 1201 and 1283 for a failed
\* run (no total), lines 1320-1332 for a submitted group.
GroupResult(tour_code, line_items, out) ==
    LET total_amount == sum([k \in 1..Len(line_items) |-> line_items[k].amount])
    IN IF out \in {"nav_failed", "submit_failed"}
       THEN [tour_code |-> tour_code, status |-> "failed", total_amount |-> "none",
             line_items |-> 0]
       ELSE [tour_code |-> tour_code, status |-> "success",
             total_amount |-> total_amount, line_items |-> Len(line_items)]

\* The records of the invoices followed: two order codes, no program code,
\* a charge, a deduction and another charge.
TotalCodes == {<<"G", "1">>, <<"G", "2">>}
Amounts == {100, 0 - 10, 50}
TotalRecordLists ==
    UNION {[1..n -> [tour_code : TotalCodes, program_code : {<<>>}, amount : Amounts]] :
              n \in 1..MaxLines}
TotalTypes == {"", "flight"}

\* start_expense_job, line 513: the records are grouped.
TotalStart(records, expense_type) ==
    /\ tl_pc = "idle"
    /\ tl_records' = records
    /\ tl_type' = expense_type
    /\ tl_grouped' = _group_records_by_tour(records, expense_type)
    /\ tl_pc' = "running"
    /\ UNCHANGED <<tl_price, tl_results>>
    /\ UNCHANGED notTotal

TotalInputs == IF tl_pc = "idle" THEN TotalRecordLists ELSE {}

\* One pass of the loop of lines 865-930: the next group is processed and
\* its entry appended to results.
ProcessGroup(out) ==
    /\ tl_pc = "running"
    /\ LET g == Len(tl_results) + 1
           tour_code == tl_grouped[g].key
           line_items == [k \in 1..Len(tl_grouped[g].items) |->
                             tl_records[tl_grouped[g].items[k]]]
       IN /\ tl_price' = Append(tl_price,
                                IF out = "nav_failed" THEN "unset"
                                ELSE fill_expense_rows(rows_for_form(line_items),
                                                       out # "no_price"))
          /\ tl_results' = Append(tl_results, GroupResult(tour_code, line_items, out))
          /\ tl_pc' = IF g = Len(tl_grouped) THEN "done" ELSE "running"
    /\ UNCHANGED <<tl_records, tl_type, tl_grouped>>
    /\ UNCHANGED notTotal

TotalNext ==
    \/ \E records \in TotalInputs, expense_type \in TotalTypes :
          TotalStart(records, expense_type)
    \/ \E out \in GroupOutcomes : ProcessGroup(out)

TotalSpec == Init /\ [][TotalNext]_vars

\* ---- claims about the totals ---------------------------------------------

\* The signed sum of the amounts of the records at the positions of members:
\* the charges less the deductions.
RECURSIVE Magnitudes(_, _)
Magnitudes(records, S) ==
    IF S = {} THEN 0
    ELSE LET i == CHOOSE i \in S : TRUE
             a == records[i].amount
         IN (IF a < 0 THEN 0 - a ELSE a) + Magnitudes(records, S \ {i})

SignedSum(records, members) ==
    LET S == {members[k] : k \in 1..Len(members)}
    IN Magnitudes(records, {i \in S : records[i].amount >= 0})
       - Magnitudes(records, {i \in S : records[i].amount < 0})

\* The number a field's characters denote.
RECURSIVE DigitsValue(_)
DigitsValue(chars) ==
    IF chars = <<>> THEN 0
    ELSE DigitsValue(SubSeq(chars, 1, Len(chars) - 1)) * 10
         + (CHOOSE d \in 0..9 : DigitChars[d + 1] = chars[Len(chars)])

AmountOf(chars) ==
    IF chars[1] = "-" THEN 0 - DigitsValue(Tail(chars)) ELSE DigitsValue(chars)

\* The invoice G1:100, G1:-10, G2:50.
ExampleRecords ==
    <<[tour_code |-> <<"G", "1">>, program_code |-> <<>>, amount |-> 100],
      [tour_code |-> <<"G", "1">>, program_code |-> <<>>, amount |-> 0 - 10],
      [tour_code |-> <<"G", "2">>, program_code |-> <<>>, amount |-> 50]>>

\* C25: the total in the result of every submitted group, and the number
\* written into the price field of every group whose form was filled, is
\* the signed sum of the amounts of the group's line items; the invoice
\* G1:100, G1:-10, G2:50 in combine mode gives the groups G1 with total 90
\* and G2 with total 50.
C25_TotalsAreSignedSums ==
    /\ \A g \in 1..Len(tl_results) :
          /\ tl_results[g].status = "success" =>
                tl_results[g].total_amount = SignedSum(tl_records, tl_grouped[g].items)
          /\ tl_price[g] # "unset" =>
                AmountOf(tl_price[g]) = SignedSum(tl_records, tl_grouped[g].items)
    /\ (tl_records = ExampleRecords /\ tl_type \notin split_types) =>
          /\ tl_grouped = <<[key |-> <<"G", "1">>, items |-> <<1, 2>>],
                            [key |-> <<"G", "2">>, items |-> <<3>>]>>
          /\ \A g \in 1..Len(tl_results) :
                tl_results[g].status = "success" =>
                   tl_results[g].total_amount = <<90, 50>>[g]

\* The example invoice has been submitted whole: G1 with a deduction among
\* its items, the price field written for both groups.
C25_Witness ==
    /\ tl_pc = "done"
    /\ tl_records = ExampleRecords
    /\ tl_type = ""
    /\ \A g \in 1..2 : tl_results[g].status = "success" /\ tl_price[g] # "unset"
    /\ tl_results[1].total_amount = 90
    /\ tl_price[1] = <<"9", "0">>

(***************************************************************************)
(* Part 12: _js_select_option on one dropdown.  A string is the sequence   *)
(* of its characters; the script's matching is computed on them.           *)
(***************************************************************************)

\* toLowerCase() on one character and on a string.
LowerChar(ch) ==
    IF \E i \in 1..Len(UpperCase) : UpperCase[i] = ch
    THEN LowerCase[CHOOSE i \in 1..Len(UpperCase) : UpperCase[i] = ch]
    ELSE ch

toLowerCase(s) == [i \in 1..Len(s) |-> LowerChar(s[i])]

\* replace(/[\s.,']+/g, ''): blanks, full stops, commas and apostrophes
\* removed.
Separators == {" ", ".", ",", "'"}

RECURSIVE strip_separators(_)
strip_separators(s) ==
    IF s = <<>> THEN s
    ELSE IF s[1] \in Separators THEN strip_separators(Tail(s))
    ELSE <<s[1]>> \o strip_separators(Tail(s))

normalise(s) == strip_separators(toLowerCase(s))

\* hay.indexOf(needle) >= 0
Contains(hay, needle) ==
    \E k \in 0..(Len(hay) - Len(needle)) : SubSeq(hay, k + 1, k + Len(needle)) = needle

\* The loop of lines 1229-1243 from option i (counted from 1) on, with the
\* bestIdx (counted from 0) and bestScore reached so far.
RECURSIVE BestFrom(_, _, _, _, _)
BestFrom(options, needle, i, bestIdx, bestScore) ==
    IF i > Len(options) THEN bestIdx
    ELSE LET optVal == normalise(options[i].value)
             optTxt == normalise(options[i].text)
             hit1 == /\ (Contains(optTxt, needle) \/ Contains(optVal, needle))
                     /\ Len(needle) > bestScore
             idx1 == IF hit1 THEN i - 1 ELSE bestIdx
             score1 == IF hit1 THEN Len(needle) ELSE bestScore
             hit2 == /\ Contains(needle, optTxt) /\ Len(optTxt) > 3
                     /\ Len(optTxt) > score1
             idx2 == IF hit2 THEN i - 1 ELSE idx1
             score2 == IF hit2 THEN Len(optTxt) ELSE score1
         IN IF optVal = needle \/ optTxt = needle THEN i - 1
            ELSE BestFrom(options, needle, i + 1, idx2, score2)

\* A routine that passes over the option selected now.
js_best_index_SkipSelected(options, value) ==
    LET others == [i \in 1..Len(options) |->
                      IF i - 1 = dd_selected THEN [value |-> <<"#">>, text |-> <<"#">>]
                      ELSE options[i]]
    IN BestFrom(others, normalise(value), 1, -1, 0)

\* bestIdx of _js_select_option, lines 1226-1243: -1 when no option matches.
js_best_index(options, value) ==
    BestFrom(options, normalise(value), 1, -1, 0)

\* The options a dropdown of the form can have: the placeholder, two
\* companies and a currency.
OptionPool ==
    {[value |-> <<>>, text |-> <<"-">>],
     [value |-> <<"1">>, text |-> <<"G", "O", " ", "3", "6", "5">>],
     [value |-> <<"2">>, text |-> <<"G", "o", " ", "A", "i", "r">>],
     [value |-> <<"T", "H", "B">>, text |-> <<"B", "a", "h", "t">>]}

OptionLists == UNION {[1..n -> OptionPool] : n \in 1..MaxOptions}

\* The values the steps ask for: a company written without blanks, a prefix
\* of two companies, a name that contains an option's text, a currency code
\* and a value no option matches.
Needles ==
    {<<"G", "o", "3", "6", "5">>,
     <<"g", "o">>,
     <<"G", "o", "A", "i", "r", "L", "t", "d">>,
     <<"t", "h", "b">>,
     <<"X", "Y">>}

\* The page with the form is loaded: the dropdown has its options and the
\* browser's initial selection.
PageLoad(options, selected) ==
    /\ dd_pc = "idle"
    /\ selected \in 0..(Len(options) - 1)
    /\ dd_options' = options
    /\ dd_selected' = selected
    /\ dd_pc' = "loaded"
    /\ UNCHANGED <<dd_changes, dd_log>>
    /\ UNCHANGED notSelect

LoadInputs == IF dd_pc = "idle" THEN OptionLists ELSE {}

\* _js_select_option(page, selector, value), lines 1216-1256: the best
\* option is selected and a change event dispatched, or nothing is done and
\* 'no_match' returned.
SelectOption(value) ==
    /\ dd_pc = "loaded"
    /\ Len(dd_log) < MaxSelects
    /\ LET bestIdx == js_best_index(dd_options, value)
           selected == IF bestIdx >= 0 THEN bestIdx ELSE dd_selected
           changes == IF bestIdx >= 0 THEN dd_changes + 1 ELSE dd_changes
       IN /\ dd_selected' = selected
          /\ dd_changes' = changes
          /\ dd_log' = Append(dd_log,
                              [value |-> value,
                               result |-> IF bestIdx >= 0 THEN "selected" ELSE "no_match",
                               selected |-> selected,
                               changes |-> changes])
    /\ UNCHANGED <<dd_pc, dd_options>>
    /\ UNCHANGED notSelect

SelectNext ==
    \/ \E options \in LoadInputs, selected \in 0..(MaxOptions - 1) :
          PageLoad(options, selected)
    \/ \E value \in Needles : SelectOption(value)

SelectSpec == Init /\ [][SelectNext]_vars

\* ---- claims about the option selection -----------------------------------

\* C27: two calls of _js_select_option in succession with the same value on
\* the same options leave the option selected that the first one left.
C27_SelectTwiceSameOption ==
    \A k \in 2..Len(dd_log) :
        dd_log[k].value = dd_log[k - 1].value =>
            dd_log[k].selected = dd_log[k - 1].selected

\* Two calls with the same value have selected an option that was not the
\* one selected when the page was loaded.
C27_Witness ==
    /\ Len(dd_log) = 2
    /\ dd_log[1].value = dd_log[2].value
    /\ dd_log[1].result = "selected"
    /\ dd_log[2].changes = 2
    /\ dd_selected = 2

\* The first option with a value, counted from 0; -1 when there is none.
FirstNonEmpty(options) ==
    IF \E i \in 1..Len(options) : options[i].value # <<>>
    THEN (CHOOSE i \in 1..Len(options) :
             /\ options[i].value # <<>>
             /\ \A j \in 1..(i - 1) : options[j].value = <<>>) - 1
    ELSE -1

\* No option matches the value with a score above zero: none is equal to
\* it, contains it or is contained in it, compared as the script compares.
NoMatch(options, value) ==
    \A i \in 1..Len(options) :
        LET optVal == normalise(options[i].value)
            optTxt == normalise(options[i].text)
            needle == normalise(value)
        IN /\ optVal # needle /\ optTxt # needle
           /\ ~Contains(optTxt, needle) /\ ~Contains(optVal, needle)
           /\ ~(Contains(needle, optTxt) /\ Len(optTxt) > 3)

\* C30: a call for a value that no option matches selects the first
\* non-empty option, when there is one, and dispatches a change event.
C30_NoMatchSelectsFirstOption ==
    \A k \in 1..Len(dd_log) :
        (NoMatch(dd_options, dd_log[k].value) /\ FirstNonEmpty(dd_options) >= 0) =>
            /\ dd_log[k].selected = FirstNonEmpty(dd_options)
            /\ dd_log[k].changes = (IF k = 1 THEN 0 ELSE dd_log[k - 1].changes) + 1

(***************************************************************************)
(* Part 13: the supplier name of a group and fill_company_expense.  The    *)
(* page is the environment: when a change event is dispatched on the       *)
(* company dropdown, its onchange script writes the selected company's     *)
(* name into pay_name.  Names are sequences of characters.                 *)
(***************************************************************************)

\* _GENERIC_CONTRACT_TERMS, line 98 (the terms in Latin letters).
_GENERIC_CONTRACT_TERMS ==
    {<<"p", "a", "r", "t", "y", " ", "a">>, <<"p", "a", "r", "t", "y", " ", "b">>,
     <<"p", "a", "r", "t", "y", " ", "c">>}

\* str.rstrip("-0123456789")
RECURSIVE rstrip_digits(_)
rstrip_digits(s) ==
    IF s # <<>> /\ s[Len(s)] \in (Digits \cup {"-"})
    THEN rstrip_digits(SubSeq(s, 1, Len(s) - 1))
    ELSE s

\* translate_supplier_name, lines 101-115.
translate_supplier_name(name) ==
    IF name = <<>> THEN name
    ELSE IF toLowerCase(rstrip_digits(strip(name))) \in _GENERIC_CONTRACT_TERMS THEN <<>>
    ELSE name

\* Lines 1075-1091: the supplier name of the group, asked from the user when
\* the document gives none; answer is what _ask_user returned ("none" for
\* None).
supplier_of(supplier_name_raw, answer) ==
    LET supplier_name == translate_supplier_name(supplier_name_raw)
    IN IF supplier_name # <<>> THEN supplier_name
       ELSE IF answer # "none" /\ answer # <<>> THEN strip(answer)
       ELSE supplier_name

\* The company dropdown of the form, and what the steps are given: company
\* names the dropdown has and has not, supplier names of a document (none, a
\* name, a contract role with a number) and answers of the user.
CompanyOptions ==
    <<[value |-> <<>>, text |-> <<"-">>],
      [value |-> <<"1">>, text |-> <<"G", "O", " ", "3", "6", "5">>]>>
CompanyNames == {<<>>, <<"G", "o", "3", "6", "5">>, <<"X", "Y">>}
RawSuppliers ==
    {<<>>, <<"A", "c", "m", "e">>, <<"P", "a", "r", "t", "y", " ", "A", "-", "1">>}
Answers == {"none", <<" ", "T", "c", " ">>}

\* The run reaches fill_company_expense on a freshly loaded form: nothing
\* is selected and pay_name is empty.
PaymentStart(company_name, supplier_name_raw, answer) ==
    /\ cp_pc \in {"idle", "done"}
    /\ cp_n < MaxPayments
    /\ cp_company' = company_name
    /\ cp_supplier' = supplier_of(supplier_name_raw, answer)
    /\ cp_selected' = 0
    /\ cp_pay_name' = <<>>
    /\ cp_writes' = <<>>
    /\ cp_pc' = "company"
    /\ UNCHANGED cp_n
    /\ UNCHANGED notPay

\* The order of the writes of fill_company_expense, lines 768-863.
PayOrder == <<"company", "method", "supplier", "rest">>

AfterPay(at) ==
    LET k == CHOOSE n \in 1..Len(PayOrder) : PayOrder[n] = at
    IN IF k < Len(PayOrder) THEN PayOrder[k + 1] ELSE "done"

\* Lines 768-773: the company dropdown.  When an option matches, the change
\* event runs the page's script, which writes the company's name into
\* pay_name.
SelectCompany ==
    /\ cp_pc = "company"
    /\ LET bestIdx == js_best_index(CompanyOptions, cp_company)
       IN IF cp_company # <<>> /\ bestIdx >= 0
          THEN /\ cp_selected' = bestIdx
               /\ cp_pay_name' = CompanyOptions[bestIdx + 1].text
               /\ cp_writes' = Append(cp_writes, "page")
          ELSE UNCHANGED <<cp_selected, cp_pay_name, cp_writes>>
    /\ cp_pc' = AfterPay("company")
    /\ UNCHANGED <<cp_n, cp_company, cp_supplier>>
    /\ UNCHANGED notPay

\* Lines 776-778: the payment method dropdown.
SelectMethod ==
    /\ cp_pc = "method"
    /\ cp_pc' = AfterPay("method")
    /\ UNCHANGED <<cp_n, cp_company, cp_supplier, cp_selected, cp_pay_name, cp_writes>>
    /\ UNCHANGED notPay

\* Where the pay_name input is found (lines 787-797) and whether typing
\* left the supplier's name in it (line 805).
PayFields == {"none", "pay_name", "other"}

\* Lines 780-820: with a supplier name and the input on the page, the input
\* is cleared and the name typed, and written by script into
\* input[name="pay_name"] when the typed value does not verify; without a
\* supplier name, or without the input, pay_name is left as it is.
WriteSupplier(found, typed_ok) ==
    /\ cp_pc = "supplier"
    /\ IF cp_supplier # <<>> /\ found # "none"
       THEN /\ cp_pay_name' = IF typed_ok \/ found = "pay_name" THEN cp_supplier
                              ELSE <<"?">>
            /\ cp_writes' = Append(cp_writes, "step")
       ELSE UNCHANGED <<cp_pay_name, cp_writes>>
    /\ cp_pc' = AfterPay("supplier")
    /\ UNCHANGED <<cp_n, cp_company, cp_supplier, cp_selected>>
    /\ UNCHANGED notPay

\* Lines 822-863: agent, amount, fee, date, payment type, period, remark.
FillRest ==
    /\ cp_pc = "rest"
    /\ cp_pc' = AfterPay("rest")
    /\ cp_n' = IF AfterPay("rest") = "done" THEN cp_n + 1 ELSE cp_n
    /\ UNCHANGED <<cp_company, cp_supplier, cp_selected, cp_pay_name, cp_writes>>
    /\ UNCHANGED notPay

PayNext ==
    \/ \E company_name \in CompanyNames, supplier_name_raw \in RawSuppliers,
          answer \in Answers :
          PaymentStart(company_name, supplier_name_raw, answer)
    \/ SelectCompany
    \/ SelectMethod
    \/ \E found \in PayFields, typed_ok \in BOOLEAN : WriteSupplier(found, typed_ok)
    \/ FillRest

PaySpec == Init /\ [][PayNext]_vars

\* ---- claims about the company payment ------------------------------------

\* C29: when fill_company_expense has selected a company, the last write of
\* pay_name is the step's own, made after the page's auto-fill, and pay_name
\* does not end holding the selected company's name.
C29_SupplierOverwritesAutoFill ==
    (cp_pc = "done" /\ cp_selected > 0) =>
        /\ cp_writes # <<>>
        /\ cp_writes[Len(cp_writes)] = "step"
        /\ cp_pay_name # CompanyOptions[cp_selected + 1].text

(***************************************************************************)
(* Part 14: the browser handles of a session and the event loops of its    *)
(* jobs.  Every job runs its coroutine on a worker thread of its own with  *)
(* a new event loop; the BrowserManager of the session stays in the pool   *)
(* between jobs.  Loops are numbered by the job that made them.            *)
(***************************************************************************)

\* _ensure_browser, lines 164-190: the handles after the call.  Handles that
\* exist and report is_connected() are kept; else playwright, browser,
\* context and page are created under the running loop.
_ensure_browser(handles, connected, loop) ==
    IF handles # 0 /\ connected THEN handles ELSE loop

\* _run_direct._worker (expense_service.py lines 771-776, 790) and
\* run_in_thread._worker (lines 266-268, 277-278): a new thread is started
\* and creates the event loop the coroutine of the job runs on.
WorkerStart ==
    /\ bh_pc = "idle"
    /\ bh_job < MaxJobs
    /\ bh_job' = bh_job + 1
    /\ bh_pc' = "running"
    /\ UNCHANGED <<bh_handles, bh_drives>>
    /\ UNCHANGED notHandle

\* One step of the workflow on the worker: BrowserManager.get_instance (lines
\* 68-97; expired: the idle timeout of the session's instance has passed and
\* a new instance without handles takes its place), get_page (lines 192-194)
\* and the calls of the step on the page it was given.  connected: what
\* _browser.is_connected() reports.
BrowserStep(expired, connected) ==
    /\ bh_pc = "running"
    /\ LET handles == IF expired THEN 0 ELSE bh_handles
           page == _ensure_browser(handles, connected, bh_job)
       IN /\ bh_handles' = page
          /\ bh_drives' = bh_drives \cup {[made |-> page, on |-> bh_job]}
    /\ UNCHANGED <<bh_job, bh_pc>>
    /\ UNCHANGED notHandle

\* The coroutine ends: _run_direct_async releases the session (lines
\* 826-827) and the worker closes its loop (lines 780-781).  The handles stay
\* in the BrowserManager of the session.
WorkerEnd ==
    /\ bh_pc = "running"
    /\ bh_pc' = "idle"
    /\ UNCHANGED <<bh_job, bh_handles, bh_drives>>
    /\ UNCHANGED notHandle

HandleNext ==
    \/ WorkerStart
    \/ \E expired, connected \in BOOLEAN : BrowserStep(expired, connected)
    \/ WorkerEnd

HandleSpec == Init /\ [][HandleNext]_vars

\* ---- claims about the handles ---------------------------------------------

\* C39: every call on a browser handle of the session is made on the event
\* loop the handle was created under, so that no job drives handles that an
\* earlier job's loop created.
C39_HandlesDrivenOnOwnLoop ==
    \A d \in bh_drives : d.made = d.on

====
